---- MODULE Spec2Model ----
(***************************************************************************)
(* Fleet manager: the tenant/instance registry (store.js), the instance    *)
(* provisioning workflow, tenant/instance teardown and the status cache    *)
(* (server.js).  Every request handler is split at its `await` points:     *)
(* one action is the run-to-completion segment the Node event loop         *)
(* executes between two awaits, with the awaited outcome chosen by \E.     *)
(***************************************************************************)
EXTENDS Integers, Sequences, FiniteSets, TLC

VARIABLES
  fleet,        \* fleet.json: tenant id -> tenant record (instances nested)
  nextTid,      \* next unused tenant uuid
  nextIid,      \* next unused instance uuid
  tsConfigured, \* isTailscaleConfigured(): process-wide, fixed at start-up
  statusCache,  \* Map instanceId -> [data, fetchedAt]
  now,          \* Date.now() in ms
  depGen,       \* control plane: generation of the latest deployment per instance
  creates,      \* createInstance handlers waiting on a remote call
  tdels,        \* tenant-delete handlers waiting on a remote call
  lifes,        \* restart / redeploy / delete-instance handlers waiting
  stats,        \* getInstanceStatus computations waiting
  resp,         \* the HTTP response sent by the step that led to this state
  disk,         \* the files of DATA_DIR: fleet.json, its .tmp and its backups
  storeOp,      \* the store.js call in progress and the position it is at
  gql,          \* railwayGql calls: position, requests sent, outcome
  sName,        \* the argument of a slugify computation
  sSlugs        \* the results of applying slugify to it, repeatedly

vars == <<fleet, nextTid, nextIid, tsConfigured, statusCache, now, depGen,
          creates, tdels, lifes, stats, resp, disk, storeOp, gql, sName,
          sSlugs>>

(* The state of the registry, the control plane and the handlers of        *)
(* server.js, which the file layer, the GraphQL client and slugify leave    *)
(* alone; and the state of those three, which the handlers leave alone.    *)
appVars == <<fleet, nextTid, nextIid, tsConfigured, statusCache, now, depGen,
             creates, tdels, lifes, stats, resp>>
libVars == <<disk, storeOp, gql, sName, sSlugs>>

----------------------------------------------------------------------------
(* Bounds of the model. *)

MaxTenants == 3
MaxInstances == 2
MaxTicks == 2
MaxGen == 1
MaxInFlight == 2
MaxTenantDeletes == 1
MaxCalls == 2
MaxRequests == 3
MaxRun == 30
MaxApply == 2

(* Program constants. *)

STATUS_CACHE_TTL == 30000
NameMax == 50
SlugMax == 30

(* The clock advances in steps of half a TTL, so that ages below, equal to *)
(* and above the TTL all occur.                                            *)
TickMs == STATUS_CACHE_TTL \div 2

Null == "null"
NoTenant == 0
NoId == <<>>
NoHostname == <<>>

----------------------------------------------------------------------------
(* Strings are sequences of one-character strings. *)

UpperChars == <<"A","B","C","D","E","F","G","H","I","J","K","L","M",
                "N","O","P","Q","R","S","T","U","V","W","X","Y","Z">>
LowerChars == <<"a","b","c","d","e","f","g","h","i","j","k","l","m",
                "n","o","p","q","r","s","t","u","v","w","x","y","z">>
DigitChars == <<"0","1","2","3","4","5","6","7","8","9">>

Range(s) == { s[i] : i \in DOMAIN s }

UpperSet == Range(UpperChars)
LowerSet == Range(LowerChars)
DigitSet == Range(DigitChars)

IsUpper(c) == c \in UpperSet
IsLower(c) == c \in LowerSet
IsDigit(c) == c \in DigitSet

LowerOf == [c \in UpperSet |->
             LowerChars[CHOOSE i \in DOMAIN UpperChars : UpperChars[i] = c]]

ToLowerChar(c) == IF IsUpper(c) THEN LowerOf[c] ELSE c

ToLower(s) == [i \in DOMAIN s |-> ToLowerChar(s[i])]

Slice(s, n) == SubSeq(s, 1, IF Len(s) < n THEN Len(s) ELSE n)

RECURSIVE TrimLeft(_)
TrimLeft(s) == IF s # <<>> /\ Head(s) = " " THEN TrimLeft(Tail(s)) ELSE s

RECURSIVE TrimRight(_)
TrimRight(s) ==
  IF s # <<>> /\ s[Len(s)] = " " THEN TrimRight(SubSeq(s, 1, Len(s) - 1)) ELSE s

Trim(s) == TrimRight(TrimLeft(s))

IsNameChar(c) == IsUpper(c) \/ IsLower(c) \/ IsDigit(c) \/ c = " " \/ c = "-"

RECURSIVE KeepNameChars(_)
KeepNameChars(s) ==
  IF s = <<>> THEN <<>>
  ELSE IF IsNameChar(Head(s)) THEN <<Head(s)>> \o KeepNameChars(Tail(s))
       ELSE KeepNameChars(Tail(s))

(* Variant: the characters outside [a-zA-Z0-9 -] are kept. *)
CleanNameUnfiltered(raw) == Slice(Trim(raw), NameMax)

(* name.trim().replace(/[^a-zA-Z0-9 -]/g, "").slice(0, 50) *)
CleanName(raw) == Slice(KeepNameChars(Trim(raw)), NameMax)

IsSlugAlnum(c) == IsLower(c) \/ IsDigit(c)

(* .replace(/[^a-z0-9]+/g, "-"): every maximal run becomes one hyphen *)
RECURSIVE CollapseRuns(_, _)
CollapseRuns(s, inRun) ==
  IF s = <<>> THEN <<>>
  ELSE IF IsSlugAlnum(Head(s)) THEN <<Head(s)>> \o CollapseRuns(Tail(s), FALSE)
       ELSE IF inRun THEN CollapseRuns(Tail(s), TRUE)
            ELSE <<"-">> \o CollapseRuns(Tail(s), TRUE)

(* .replace(/^-|-$/g, ""): one leading and one trailing hyphen removed *)
StripEdgeHyphens(s) ==
  LET a == IF s # <<>> /\ Head(s) = "-" THEN Tail(s) ELSE s
  IN  IF a # <<>> /\ a[Len(a)] = "-" THEN SubSeq(a, 1, Len(a) - 1) ELSE a

slugify(name) == Slice(StripEdgeHyphens(CollapseRuns(ToLower(name), FALSE)), SlugMax)

DefaultName == <<"D","e","f","a","u","l","t">>
DefaultSlug == <<"d","e","f","a","u","l","t">>

(* Names a client may send for a tenant. *)
TenantNameInputs ==
  { <<"A","b">>, <<"a","b","!">>, <<"!">>, DefaultName }

----------------------------------------------------------------------------
(* Responses. *)

NoLog == <<"(no log field)">>

(* kind: the route; code: the HTTP status; id: the tenant or instance the   *)
(* request named or created; log: the body's log array, NoLog when the     *)
(* body has none; err: the step whose failure the body's error reports.    *)
(* detail: what else the handler reported (body fields, console.warn).  *)
Response(kind, code, id, log, err) ==
  [kind |-> kind, code |-> code, id |-> id, log |-> log, err |-> err,
   detail |-> <<>>]

ResponseD(kind, code, id, detail) ==
  [Response(kind, code, id, NoLog, "") EXCEPT !.detail = detail]

NoResp == Response("none", 0, 0, NoLog, "")

----------------------------------------------------------------------------
(* store.js: the registry document and its operations.  Every operation     *)
(* is load(); modify; save(data) with no await in between, so it is one     *)
(* function from document to document.                                      *)

NoInstances == [i \in {} |-> Null]
EmptyCache == [i \in {} |-> Null]

Tenant(id, name, slug, notes, instances) ==
  [id |-> id, name |-> name, slug |-> slug, notes |-> notes,
   tailscale |-> Null, instances |-> instances]

(* emptyStore(): the document of a first run *)
emptyStore(id) == (id :> Tenant(id, DefaultName, DefaultSlug, "", NoInstances))

Without(f, k) == [x \in DOMAIN f \ {k} |-> f[x]]

addTenant(doc, tenant) == (tenant.id :> tenant) @@ doc

(* Variant: the patch is assigned as given. *)
WholePatch(patch) == patch

(* const { instances: _ignored, ...safePatch } = patch *)
SafePatch(patch) == [k \in DOMAIN patch \ {"instances"} |-> patch[k]]

(* A patch is an object with some of the tenant's properties;             *)
(* Object.assign copies every own property of safePatch onto the tenant.   *)
updateTenant(doc, tenantId, patch) ==
  IF tenantId \notin DOMAIN doc THEN doc
  ELSE LET tenant == doc[tenantId]
           safe == SafePatch(patch)
       IN  [doc EXCEPT ![tenantId] =
              [k \in DOMAIN tenant \cup DOMAIN safe |->
                 IF k \in DOMAIN safe THEN safe[k] ELSE tenant[k]]]

removeTenant(doc, tenantId) == Without(doc, tenantId)

(* Object.values(data.tenants).find(slug === "default"): keys are kept in   *)
(* insertion order, which is the order of the ids.                          *)
(* The id of the tenant found, NoTenant for null.                           *)
getDefaultTenant(doc) ==
  LET ds == { t \in DOMAIN doc : doc[t].slug = DefaultSlug }
  IN  IF ds = {} THEN NoTenant
      ELSE CHOOSE t \in ds : \A u \in ds : t <= u

(* getInstance(tenantId, instanceId) is not null *)
HasInstance(doc, tenantId, instanceId) ==
  /\ tenantId \in DOMAIN doc
  /\ instanceId \in DOMAIN doc[tenantId].instances

(* Variant: an instance of the same name in the tenant is replaced. *)
addInstanceByName(doc, tenantId, instance) ==
  IF tenantId \notin DOMAIN doc THEN doc
  ELSE LET kept == { i \in DOMAIN doc[tenantId].instances :
                       doc[tenantId].instances[i].name # instance.name }
       IN  [doc EXCEPT ![tenantId].instances =
              (instance.id :> instance) @@ [i \in kept |-> @[i]]]

(* addInstance returns null and writes nothing when the tenant is unknown *)
addInstance(doc, tenantId, instance) ==
  IF tenantId \notin DOMAIN doc THEN doc
  ELSE [doc EXCEPT ![tenantId].instances = (instance.id :> instance) @@ @]

removeInstance(doc, tenantId, instanceId) ==
  IF tenantId \notin DOMAIN doc THEN doc
  ELSE [doc EXCEPT ![tenantId].instances = Without(@, instanceId)]

(* updateInstance: Object.assign copies every own property of the patch  *)
(* onto the instance; null is returned and nothing written when the tenant *)
(* or the instance is unknown.                                             *)
updateInstance(doc, tenantId, instanceId, patch) ==
  IF ~HasInstance(doc, tenantId, instanceId) THEN doc
  ELSE LET inst == doc[tenantId].instances[instanceId]
       IN  [doc EXCEPT ![tenantId].instances[instanceId] =
              [k \in DOMAIN inst \cup DOMAIN patch |->
                 IF k \in DOMAIN patch THEN patch[k] ELSE inst[k]]]

(* findInstanceAcrossTenants: the id of the first tenant holding it *)
findInstanceAcrossTenants(doc, instanceId) ==
  LET ts == { t \in DOMAIN doc : instanceId \in DOMAIN doc[t].instances }
  IN  IF ts = {} THEN NoTenant ELSE CHOOSE t \in ts : \A u \in ts : t <= u

AllInstanceIds(doc) == UNION { DOMAIN doc[t].instances : t \in DOMAIN doc }

Slugs(doc) == { doc[t].slug : t \in DOMAIN doc }

----------------------------------------------------------------------------
(* server.js: tenant API.  The create and update handlers have no await.   *)

NotesInputs == { "n1" }

OtherVarsUnchanged ==
  UNCHANGED <<tsConfigured, libVars, statusCache, now, depGen, creates, tdels, lifes, stats>>

(* Variant: the name is checked before the sanitisation only. *)
NameOnlyRequired(raw) == Trim(raw) = <<>>

(* Lines 221-228 (388-395, 671-679): "Name is required." when the name is  *)
(* blank, "Name must contain alphanumeric characters." when nothing is     *)
(* left of it after the sanitisation; both with status 400.                *)
NameIsInvalid(raw) == Trim(raw) = <<>> \/ CleanName(raw) = <<>>

(* Variant: no slug counts as taken. *)
SlugNeverTaken(doc, slug) == FALSE

(* What the tenant handlers compute from the name of a request: whether    *)
(* the name is rejected, the sanitized name and its slug.  One entry per   *)
(* name a client may send, and one for a request without a name.           *)
TenantNames ==
  [raw \in TenantNameInputs \cup {<<>>} |->
     [invalid |-> NameIsInvalid(raw), cleanName |-> CleanName(raw),
      slug |-> slugify(CleanName(raw))]]

(* POST /api/tenants; the detail of the response records the request. *)
SlugTaken(doc, slug) == \E t \in DOMAIN doc : doc[t].slug = slug

PostTenant(raw) ==
  LET cleanName == TenantNames[raw].cleanName
      slug == TenantNames[raw].slug
      req == [raw |-> raw]
  IN  /\ IF TenantNames[raw].invalid
           THEN /\ resp' = ResponseD("createTenant", 400, 0, req)
                /\ UNCHANGED <<fleet, nextTid>>
           ELSE IF SlugTaken(fleet, slug)
           THEN /\ resp' = ResponseD("createTenant", 409, 0, req)
                /\ UNCHANGED <<fleet, nextTid>>
           ELSE /\ nextTid <= MaxTenants
                /\ fleet' = addTenant(fleet, Tenant(nextTid, cleanName, slug, "", NoInstances))
                /\ nextTid' = nextTid + 1
                /\ resp' = ResponseD("createTenant", 200, nextTid, req)
      /\ UNCHANGED nextIid
      /\ OtherVarsUnchanged

(* PATCH /api/tenants/:tenantId *)
PatchTenant(tenantId, hasName, raw, hasNotes, notes) ==
  LET cleanName == TenantNames[raw].cleanName
      patch == (IF hasName THEN [name |-> cleanName, slug |-> TenantNames[raw].slug]
                           ELSE NoInstances)
               @@ (IF hasNotes THEN [notes |-> notes] ELSE NoInstances)
      req == [hasName |-> hasName, raw |-> raw]
  IN  /\ IF hasName /\ cleanName = <<>>
           THEN /\ resp' = ResponseD("updateTenant", 400, tenantId, req)
                /\ UNCHANGED fleet
           ELSE IF tenantId \notin DOMAIN fleet
           THEN /\ resp' = ResponseD("updateTenant", 404, tenantId, req)
                /\ UNCHANGED fleet
           ELSE /\ fleet' = updateTenant(fleet, tenantId, patch)
                /\ resp' = ResponseD("updateTenant", 200, tenantId, req)
      /\ UNCHANGED <<nextTid, nextIid>>
      /\ OtherVarsUnchanged

----------------------------------------------------------------------------
(* server.js: POST /api/tenants/:tid/instances and POST /api/instances.    *)

InstanceNameInputs == { <<"X"," ","1">>, <<"!">> }

ServicePrefix == <<"c","o","r","t","e","x","a","i","-">>

IsServiceChar(c) == IsLower(c) \/ IsDigit(c) \/ c = "-"

(* .replace(/\s+/g, "-") *)
RECURSIVE SpacesToHyphen(_, _)
SpacesToHyphen(s, inRun) ==
  IF s = <<>> THEN <<>>
  ELSE IF Head(s) # " " THEN <<Head(s)>> \o SpacesToHyphen(Tail(s), FALSE)
       ELSE IF inRun THEN SpacesToHyphen(Tail(s), TRUE)
            ELSE <<"-">> \o SpacesToHyphen(Tail(s), TRUE)

RECURSIVE KeepServiceChars(_)
KeepServiceChars(s) ==
  IF s = <<>> THEN <<>>
  ELSE IF IsServiceChar(Head(s)) THEN <<Head(s)>> \o KeepServiceChars(Tail(s))
       ELSE KeepServiceChars(Tail(s))

ServiceSlug(cleanName) ==
  ServicePrefix \o KeepServiceChars(SpacesToHyphen(ToLower(cleanName), FALSE))

(* Variant: the tenant-scoped route always names the tenant's slug. *)
ProjectLabelWithSlug(route, tenantSlug, cleanName) ==
  IF route = "legacy"
    THEN <<"CortexAI", cleanName>>
    ELSE <<"CortexAI", tenantSlug, cleanName>>

(* `CortexAI - ${cleanName}` or `CortexAI - ${tenant.slug} - ${cleanName}` *)
ProjectLabel(route, tenantSlug, cleanName) ==
  IF route = "legacy" \/ tenantSlug = DefaultSlug
    THEN <<"CortexAI", cleanName>>
    ELSE <<"CortexAI", tenantSlug, cleanName>>

(* Identifiers the control plane returns for the project of one request. *)
RemoteId(kind, n) == <<kind, n>>

Railway(c) ==
  [projectId |-> c.projectId, serviceId |-> c.serviceId,
   environmentId |-> c.environmentId, volumeId |-> c.volumeId]

Instance(c) ==
  [id |-> c.iid, name |-> c.cleanName, railway |-> Railway(c),
   config |-> [setupPassword |-> "pw", gatewayToken |-> "tok"],
   tailscale |-> c.tailscaleHostname, notes |-> ""]

(* Lines 521-526 (751): the instance member of the create response. *)
CreatedInstance(c) ==
  [id |-> c.iid, name |-> c.cleanName,
   setupPassword |-> Instance(c).config.setupPassword,
   railway |-> [projectId |-> c.projectId, serviceId |-> c.serviceId,
                environmentId |-> c.environmentId]]

(* The patches a caller of store.updateInstance passes: new notes, or the  *)
(* identifiers of another project.                                         *)
InstancePatch(kind) ==
  IF kind = "notes" THEN [notes |-> "n1"]
  ELSE [railway |-> [projectId |-> RemoteId("project", 0),
                     serviceId |-> RemoteId("service", 0),
                     environmentId |-> RemoteId("environment", 0),
                     volumeId |-> RemoteId("volume", 0)]]

(* The patches a caller of store.updateTenant passes: new notes, alone or  *)
(* with an instances property.                                             *)
TenantPatch(kind) ==
  IF kind = "notes" THEN [notes |-> "n1"]
  ELSE [notes |-> "n2", instances |-> NoInstances]

(* A call of store.updateTenant(tenantId, patch) as the export allows it;  *)
(* the response records the call.                                          *)
UpdateTenant(tenantId, kind) ==
  /\ fleet' = updateTenant(fleet, tenantId, TenantPatch(kind))
  /\ resp' = ResponseD("store.updateTenant", 0, tenantId, [patch |-> kind])
  /\ UNCHANGED <<nextTid, nextIid>>
  /\ OtherVarsUnchanged

(* A call of store.updateInstance(tenantId, instanceId, patch); the export *)
(* is synchronous and no route of server.js calls it.                      *)
UpdateInstance(tenantId, instanceId, kind) ==
  /\ fleet' = updateInstance(fleet, tenantId, instanceId, InstancePatch(kind))
  /\ resp' = NoResp
  /\ UNCHANGED <<nextTid, nextIid>>
  /\ OtherVarsUnchanged

CreateVarsUnchanged ==
  UNCHANGED <<nextTid, tsConfigured, libVars, statusCache, now, depGen, tdels, lifes, stats>>

Replace(set, old, new) == (set \ {old}) \cup {new}

(* Lines 383-412 (663-687): tenant lookup, name validation, id generation  *)
(* and the first log line, up to the await of PROJECT_CREATE.  The field   *)
(* loaded serves the properties only: the document the tenant lookup read. *)
(* resent is the parity of the number of times railwayGql has sent the     *)
(* pending request again.                                                  *)
CreateStart(route, tid, raw) ==
  LET t == IF route = "legacy" THEN getDefaultTenant(fleet)
           ELSE IF tid \in DOMAIN fleet THEN tid ELSE NoTenant
      tenant == fleet[t]
      cleanName == CleanName(raw)
  IN  /\ IF t = NoTenant
           THEN /\ resp' = Response("createInstance", 404, 0, NoLog, "tenant")
                /\ UNCHANGED <<creates, nextIid>>
           ELSE IF NameIsInvalid(raw)
           THEN /\ resp' = Response("createInstance", 400, 0, NoLog, "name")
                /\ UNCHANGED <<creates, nextIid>>
           ELSE /\ nextIid <= MaxInstances
                /\ creates' = creates \cup
                     {[iid |-> nextIid, tid |-> tenant.id,
                       cleanName |-> cleanName,
                       projectLabel |-> ProjectLabel(route, tenant.slug, cleanName),
                       serviceSlug |-> <<>>,
                       pc |-> "project", log |-> <<"project:start">>,
                       projectId |-> NoId, environmentId |-> NoId,
                       serviceId |-> NoId, volumeId |-> NoId,
                       tailscaleHostname |-> NoHostname,
                       loaded |-> fleet, resent |-> 0]}
                /\ nextIid' = nextIid + 1
                /\ resp' = NoResp
      /\ UNCHANGED fleet
      /\ CreateVarsUnchanged

(* Variant: the catch block stores what the workflow has built so far. *)
CreateFailSaves(c) ==
  /\ creates' = creates \ {c}
  /\ resp' = Response("createInstance", 500, c.iid, NoLog, c.pc)
  /\ fleet' = addInstance(fleet, c.tid, Instance(c))
  /\ UNCHANGED nextIid
  /\ CreateVarsUnchanged

(* Variant: the catch block answers and then asks the control plane to     *)
(* delete the project, waiting for its answer.                             *)
CreateFailRollsBack(c) ==
  /\ creates' = Replace(creates, c, [c EXCEPT !.pc = "rollback"])
  /\ resp' = Response("createInstance", 500, c.iid, NoLog, c.pc)
  /\ UNCHANGED <<fleet, nextIid>>
  /\ CreateVarsUnchanged

(* The catch block of the handler: status 500, body {ok: false, error}.    *)
CreateFail(c) ==
  /\ creates' = creates \ {c}
  /\ resp' = Response("createInstance", 500, c.iid, NoLog, c.pc)
  /\ UNCHANGED <<fleet, nextIid>>
  /\ CreateVarsUnchanged

CreateGoto(c, d) ==
  /\ creates' = Replace(creates, c, d)
  /\ resp' = NoResp
  /\ UNCHANGED <<fleet, nextIid>>
  /\ CreateVarsUnchanged

(* The steps whose remote call goes through railwayGql; the two mesh       *)
(* calls (getTailscaleToken, createAuthKey) do not.                        *)
GqlSteps == { "project", "service", "volume", "vars", "tsUpsert", "domain", "deploy" }

(* railway-api.js 620-625: the pending request is answered 429; railwayGql *)
(* waits Retry-After seconds and calls itself, which sends the request     *)
(* again; the handler is still at the same await.                          *)
CreateThrottled(c) ==
  /\ c.pc \in GqlSteps
  /\ CreateGoto(c, [c EXCEPT !.resent = 1 - @])

(* Step 1-2: PROJECT_CREATE answered. out: "ok", "noenv" (no environment   *)
(* edge in the answer, line 421 throws) or "fail".                         *)
CreateProjectStep(c, out) ==
  /\ c.pc = "project"
  /\ IF out = "ok"
       THEN CreateGoto(c, [c EXCEPT
              !.projectId = RemoteId("project", c.iid),
              !.environmentId = RemoteId("environment", c.iid),
              !.serviceSlug = ServiceSlug(c.cleanName),
              !.log = @ \o <<"project:created", "environment", "service:start">>,
              !.pc = "service"])
       ELSE CreateFail(c)

(* Step 3: SERVICE_CREATE answered. *)
CreateServiceStep(c, ok) ==
  /\ c.pc = "service"
  /\ IF ok
       THEN CreateGoto(c, [c EXCEPT
              !.serviceId = RemoteId("service", c.iid),
              !.log = @ \o <<"service:created", "volume:start">>,
              !.pc = "volume"])
       ELSE CreateFail(c)

(* Step 4: VOLUME_CREATE answered. *)
CreateVolumeStep(c, ok) ==
  /\ c.pc = "volume"
  /\ IF ok
       THEN CreateGoto(c, [c EXCEPT
              !.volumeId = RemoteId("volume", c.iid),
              !.log = @ \o <<"volume:created", "vars:start">>,
              !.pc = "vars"])
       ELSE CreateFail(c)

(* Step 5: VARIABLE_COLLECTION_UPSERT answered; then step 5b starts when   *)
(* Tailscale is configured, step 6 otherwise.                              *)
CreateVarsStep(c, ok) ==
  /\ c.pc = "vars"
  /\ IF ok
       THEN IF tsConfigured
              THEN CreateGoto(c, [c EXCEPT !.log = @ \o <<"vars:set", "ts:start">>,
                                           !.pc = "tsToken"])
              ELSE CreateGoto(c, [c EXCEPT !.log = @ \o <<"vars:set", "domain:start">>,
                                           !.pc = "domain"])
       ELSE CreateFail(c)

(* Variant: a mesh failure reaches the handler's catch block. *)
TailscaleAborts(c) == CreateFail(c)

(* The catch of step 5b: the failure is logged and step 6 starts. *)
TailscaleSkipped(c) ==
  CreateGoto(c, [c EXCEPT !.log = @ \o <<"ts:skipped", "domain:start">>,
                          !.pc = "domain"])

(* Step 5b: getTailscaleToken() answered. *)
CreateTsTokenStep(c, ok) ==
  /\ c.pc = "tsToken"
  /\ IF ok THEN CreateGoto(c, [c EXCEPT !.pc = "tsKey"])
           ELSE TailscaleSkipped(c)

(* Step 5b: createAuthKey() answered. *)
CreateTsKeyStep(c, ok) ==
  /\ c.pc = "tsKey"
  /\ IF ok THEN CreateGoto(c, [c EXCEPT !.pc = "tsUpsert"])
           ELSE TailscaleSkipped(c)

(* Step 5b: the upsert of TS_AUTHKEY and TS_HOSTNAME answered. *)
CreateTsUpsertStep(c, ok) ==
  /\ c.pc = "tsUpsert"
  /\ IF ok
       THEN CreateGoto(c, [c EXCEPT
              !.tailscaleHostname = c.serviceSlug,
              !.log = @ \o <<"ts:created", "domain:start">>,
              !.pc = "domain"])
       ELSE TailscaleSkipped(c)

(* Variant: a failure of the domain request reaches the handler's catch. *)
DomainFailureAborts(c) == CreateFail(c)

(* The catch of step 6 (lines 497-499): the failure is logged and step 7   *)
(* starts.                                                                 *)
DomainFailureLogged(c) ==
  CreateGoto(c, [c EXCEPT !.log = @ \o <<"domain:note", "deploy:start">>,
                          !.pc = "deploy"])

(* Step 6: SERVICE_DOMAIN_CREATE answered; a failure is logged only. *)
CreateDomainStep(c, ok) ==
  /\ c.pc = "domain"
  /\ IF ok
       THEN CreateGoto(c, [c EXCEPT !.log = @ \o <<"domain:created", "deploy:start">>,
                                    !.pc = "deploy"])
       ELSE DomainFailureLogged(c)

(* Variant: the instance is added to the document the handler read when   *)
(* the request came in, and that document is saved.                        *)
SaveOnLoaded(c) == addInstance(c.loaded, c.tid, Instance(c))

(* Line 507 (742): store.addInstance loads the document, adds the instance *)
(* and saves, with no await in between.                                    *)
SaveOnCurrent(c) == addInstance(fleet, c.tid, Instance(c))

(* Steps 7-8: SERVICE_INSTANCE_DEPLOY answered; store.addInstance, whose   *)
(* result the handler does not look at; the success response.              *)
CreateDeployStep(c, ok) ==
  /\ c.pc = "deploy"
  /\ IF ok
       THEN /\ fleet' = SaveOnCurrent(c)
            /\ creates' = creates \ {c}
            /\ resp' = [Response("createInstance", 200, c.iid,
                                 c.log \o <<"deploy:triggered", "saved">>, "")
                          EXCEPT !.detail =
                            [tid |-> c.tid,
                             railway |-> [projectId |-> c.projectId,
                                          serviceId |-> c.serviceId,
                                          environmentId |-> c.environmentId],
                             instance |-> CreatedInstance(c)]]
            /\ UNCHANGED nextIid
            /\ CreateVarsUnchanged
       ELSE CreateFail(c)

----------------------------------------------------------------------------
(* server.js: DELETE /api/tenants/:tenantId.                               *)

(* The response; its detail records the instances the handler read, the   *)
(* deletions it requested, those that failed, and the errors array it      *)
(* printed as a warning.                                                   *)
TenantDeleteDone(d) ==
  ResponseD("deleteTenant", 200, d.tid,
            [instances |-> d.instances, requested |-> d.requested,
             failed |-> d.failed, warned |-> d.errors])

(* Variant: the tenant is kept when a remote deletion failed. *)
RemoveUnlessErrors(doc, d) == IF d.errors = {} THEN removeTenant(doc, d.tid) ELSE doc

(* Line 327: store.removeTenant(tenant.id), whatever the errors. *)
RemoveAfterCascade(doc, d) == removeTenant(doc, d.tid)

(* Lines 318-320: the catch of one deletion pushes onto errors. *)
CollectError(errors, i) == errors \cup {i}

(* Lines 307-316: tenant lookup; with no instances the tenant is removed   *)
(* at once, otherwise the loop reaches its first await.                    *)
DeleteTenantStart(tid) ==
  LET d == [tid |-> tid, instances |-> DOMAIN fleet[tid].instances,
            todo |-> DOMAIN fleet[tid].instances,
            requested |-> {}, failed |-> {}, errors |-> {}]
  IN  /\ IF tid \notin DOMAIN fleet
           THEN /\ resp' = Response("deleteTenant", 404, tid, NoLog, "tenant")
                /\ UNCHANGED <<fleet, tdels>>
           ELSE IF d.instances = {}
           THEN /\ fleet' = RemoveAfterCascade(fleet, d)
                /\ resp' = TenantDeleteDone(d)
                /\ UNCHANGED tdels
           ELSE /\ Cardinality(tdels) < MaxTenantDeletes
                /\ tdels' = tdels \cup {d}
                /\ resp' = NoResp
                /\ UNCHANGED fleet
      /\ UNCHANGED <<nextTid, nextIid, tsConfigured, libVars, statusCache, now, depGen,
                     creates, lifes, stats>>

(* Lines 314-330: PROJECT_DELETE for instance i answered: the cache entry  *)
(* goes on success, the error is collected on failure; after the last      *)
(* instance the warning is printed and the tenant removed.  The loop       *)
(* follows the insertion order of the instances, here any order.           *)
DeleteTenantStep(d, i, ok) ==
  LET e == [d EXCEPT !.todo = @ \ {i},
                     !.requested = @ \cup {i},
                     !.failed = IF ok THEN @ ELSE @ \cup {i},
                     !.errors = IF ok THEN @ ELSE CollectError(@, i)]
  IN  /\ i \in d.todo
      /\ statusCache' = IF ok THEN Without(statusCache, i) ELSE statusCache
      /\ IF e.todo = {}
           THEN /\ fleet' = RemoveAfterCascade(fleet, e)
                /\ tdels' = tdels \ {d}
                /\ resp' = TenantDeleteDone(e)
           ELSE /\ tdels' = Replace(tdels, d, e)
                /\ resp' = NoResp
                /\ UNCHANGED fleet
      /\ UNCHANGED <<nextTid, nextIid, tsConfigured, libVars, now, depGen,
                     creates, lifes, stats>>

----------------------------------------------------------------------------
(* server.js: restart, redeploy and delete of one instance, tenant-scoped  *)
(* and legacy routes.                                                       *)

LifeOps == { "restart", "redeploy", "delete" }

(* The restart and the redeploy handlers are the same code: the same       *)
(* remote call and the same response body.                                 *)
RemoteCall(op) ==
  IF op = "delete" THEN "PROJECT_DELETE" ELSE "SERVICE_INSTANCE_REDEPLOY"
Routes == { "tenant", "legacy" }

(* The tenant under which the route finds the instance, NoTenant for 404.  *)
Lookup(route, tid, iid) ==
  IF route = "legacy" THEN findInstanceAcrossTenants(fleet, iid)
  ELSE IF HasInstance(fleet, tid, iid) THEN tid ELSE NoTenant

(* Status reads and lifecycle operations waiting on a remote call. *)
InFlight == Cardinality(stats) + Cardinality(lifes)

(* The handler up to its await of the remote call. *)
LifeStart(op, route, tid, iid) ==
  LET owner == Lookup(route, tid, iid)
  IN  /\ IF owner = NoTenant
           THEN /\ resp' = Response(RemoteCall(op), 404, iid, NoLog, "instance")
                /\ UNCHANGED lifes
           ELSE /\ InFlight < MaxInFlight
                /\ lifes' = lifes \cup {[call |-> RemoteCall(op), tid |-> owner,
                                         iid |-> iid]}
                /\ resp' = NoResp
      /\ UNCHANGED <<fleet, nextTid, nextIid, tsConfigured, libVars, statusCache, now,
                     depGen, creates, tdels, stats>>

(* What the handler does once the remote call has succeeded. *)
LifeDone(l) ==
  /\ fleet' = IF l.call = "PROJECT_DELETE" THEN removeInstance(fleet, l.tid, l.iid)
              ELSE fleet
  /\ statusCache' = Without(statusCache, l.iid)

(* Variant: the record and the cache entry go before the remote call. *)
LifeFailedAfterRemoval(l) ==
  /\ resp' = Response(l.call, 500, l.iid, NoLog, "remote")
  /\ LifeDone(l)
  /\ UNCHANGED depGen

(* The catch of the handler: status 500 and nothing else. *)
LifeFailed(l) ==
  /\ resp' = Response(l.call, 500, l.iid, NoLog, "remote")
  /\ UNCHANGED <<fleet, statusCache, depGen>>

(* The remote call answered.  A successful redeploy starts a new           *)
(* deployment on the control plane.                                        *)
LifeStep(l, ok) ==
  /\ l \in lifes
  /\ lifes' = lifes \ {l}
  /\ IF ok
       THEN /\ l.call # "PROJECT_DELETE" => depGen[l.iid] < MaxGen
            /\ depGen' = IF l.call = "PROJECT_DELETE" THEN depGen
                          ELSE [depGen EXCEPT ![l.iid] = @ + 1]
            /\ LifeDone(l)
            /\ resp' = Response(l.call, 200, l.iid, NoLog, "")
       ELSE LifeFailed(l)
  /\ UNCHANGED <<nextTid, nextIid, tsConfigured, libVars, now, creates, tdels, stats>>

----------------------------------------------------------------------------
(* server.js: getInstanceStatus and the routes that call it.               *)

NoDeployment == [id |-> -1, status |-> "null"]
UnknownDeployment == [id |-> -1, status |-> "UNKNOWN"]
NoDomain == ""
NoHealth == [present |-> FALSE, configured |-> FALSE, reachable |-> FALSE]

DeploymentStatuses ==
  { "BUILDING", "DEPLOYING", "FAILED", "CRASHED", "SUCCESS", "REMOVED", "SLEEPING" }

(* Variant: a removed deployment is not told apart from an unknown one. *)
CompositeWithoutStopped(deployment, health) ==
  IF deployment = NoDeployment THEN "no-deployment"
  ELSE IF deployment.status = "BUILDING" THEN "building"
  ELSE IF deployment.status = "DEPLOYING" THEN "deploying"
  ELSE IF deployment.status \in {"FAILED", "CRASHED"} THEN "failed"
  ELSE IF deployment.status = "SUCCESS"
    THEN IF ~health.present THEN "unhealthy"
         ELSE IF ~health.configured THEN "needs-setup"
         ELSE IF health.reachable THEN "running"
         ELSE "unhealthy"
  ELSE "unknown"

(* Lines 152-177: the composite status. *)
Composite(deployment, health) ==
  IF deployment = NoDeployment THEN "no-deployment"
  ELSE IF deployment.status = "BUILDING" THEN "building"
  ELSE IF deployment.status = "DEPLOYING" THEN "deploying"
  ELSE IF deployment.status \in {"FAILED", "CRASHED"} THEN "failed"
  ELSE IF deployment.status = "SUCCESS"
    THEN IF ~health.present THEN "unhealthy"
         ELSE IF ~health.configured THEN "needs-setup"
         ELSE IF health.reachable THEN "running"
         ELSE "unhealthy"
  ELSE IF deployment.status = "REMOVED" THEN "stopped"
  ELSE "unknown"

StatusData(r) ==
  [deployment |-> r.deployment, domain |-> r.domain, health |-> r.health,
   status |-> Composite(r.deployment, r.health)]

(* Variant: an entry of exactly the TTL's age is still served. *)
CacheFreshInclusive(entry, t) == t - entry.fetchedAt <= STATUS_CACHE_TTL

(* Variant: a degraded snapshot is never served from the cache. *)
CacheFreshUnlessUnknown(entry, t) ==
  t - entry.fetchedAt < STATUS_CACHE_TTL /\ entry.data.deployment.status # "UNKNOWN"

(* Line 96: the cached entry is young enough to be served at time t. *)
CacheFresh(entry, t) == t - entry.fetchedAt < STATUS_CACHE_TTL

(* Variant: the detail routes leave the entry in place. *)
CacheKept(src, iid) == statusCache

(* What a route does to the cache before it calls getInstanceStatus: the   *)
(* detail routes delete the entry (lines 362, 649), the list routes do not. *)
CacheBeforeRead(src, iid) ==
  IF src = "detail" THEN Without(statusCache, iid) ELSE statusCache

Sources == { "list", "detail" }

(* Variant: the detail routes return the stored config. *)
StoredConfig(inst) == inst.config

(* Lines 371 and 657: the config member of the detail routes' instance. *)
PublicConfig(inst) == [setupPassword |-> inst.config.setupPassword]

(* Lines 188-199: the object the list routes return for one instance. *)
enrichInstance(inst, live) ==
  [id |-> inst.id, name |-> inst.name, notes |-> inst.notes,
   setupPassword |-> inst.config.setupPassword,
   domain |-> live.domain, status |-> live.status,
   deployment |-> live.deployment, tailscale |-> inst.tailscale]

(* Lines 369-373 (655-659): the stored instance spread into a new object,  *)
(* its config replaced, the snapshot added as live.                        *)
DetailInstance(inst, live) ==
  [k \in DOMAIN inst \cup {"config", "live"} |->
     IF k = "config" THEN PublicConfig(inst)
     ELSE IF k = "live" THEN live
     ELSE inst[k]]

StatusResponse(r, data, cached) ==
  ResponseD("status", 200, r.iid,
            [data |-> data, cached |-> cached, src |-> r.src,
             asOf |-> r.asOf, seen |-> r.seen, failed |-> r.failed,
             instance |-> IF r.src = "list" THEN enrichInstance(r.inst, data)
                          ELSE DetailInstance(r.inst, data)])

(* The route up to the first await of getInstanceStatus: instance lookup,  *)
(* the detail route's cache delete, the cache check (lines 95-98) and, on  *)
(* a miss, the DEPLOYMENTS_QUERY request.  Three fields serve the          *)
(* inst is the stored instance the route read.  Three fields serve the     *)
(* properties only: asOf, the control plane's generation when the data     *)
(* was queried, seen, whether the route found no entry, one stored less    *)
(* than 30 seconds earlier ("young") or an older one, and failed, the     *)
(* query that threw, "none" when neither did.                              *)
GetStatusStart(src, route, tid, iid) ==
  LET owner == Lookup(route, tid, iid)
      cache == CacheBeforeRead(src, iid)
      hit == iid \in DOMAIN cache /\ CacheFresh(cache[iid], now)
      r == [iid |-> iid, src |-> src, pc |-> "deployments",
            inst |-> fleet[owner].instances[iid],
            deployment |-> NoDeployment, domain |-> NoDomain, health |-> NoHealth,
            asOf |-> IF hit THEN cache[iid].asOf ELSE -1,
            seen |-> IF iid \notin DOMAIN statusCache THEN "none"
                     ELSE IF now - statusCache[iid].fetchedAt < 30000 THEN "young"
                     ELSE "old",
            failed |-> "none"]
  IN  /\ IF owner = NoTenant
           THEN /\ resp' = Response("status", 404, iid, NoLog, "instance")
                /\ UNCHANGED <<statusCache, stats>>
           ELSE /\ statusCache' = cache
                /\ IF hit
                     THEN /\ resp' = StatusResponse(r, cache[iid].data, TRUE)
                          /\ UNCHANGED stats
                     ELSE /\ InFlight < MaxInFlight
                          /\ r \notin stats
                          /\ stats' = stats \cup {r}
                          /\ resp' = NoResp
      /\ UNCHANGED <<fleet, nextTid, nextIid, tsConfigured, libVars, now, depGen,
                     creates, tdels, lifes>>

(* Lines 179-181: the snapshot is stored under the instance id and         *)
(* returned.                                                               *)
StatusFinish(r, q) ==
  /\ statusCache' = (q.iid :> [data |-> StatusData(q), fetchedAt |-> now,
                                asOf |-> q.asOf]) @@ statusCache
  /\ stats' = stats \ {r}
  /\ resp' = StatusResponse(q, StatusData(q), FALSE)

StatusGoto(r, q) ==
  /\ stats' = Replace(stats, r, q)
  /\ resp' = NoResp
  /\ UNCHANGED statusCache

StatusVarsUnchanged ==
  UNCHANGED <<fleet, nextTid, nextIid, tsConfigured, libVars, now, depGen, creates,
              tdels, lifes>>

DeploymentAnswers == DeploymentStatuses \cup { "none", "fail" }

(* Variant: the catch keeps the deployment the first query returned. *)
QueryFailedKeeps(r) == [r EXCEPT !.failed = r.pc]

(* Lines 134-136: the catch around both queries replaces the deployment by *)
(* the UNKNOWN marker.                                                     *)
QueryFailed(r) == [r EXCEPT !.deployment = UnknownDeployment, !.failed = r.pc]

(* Lines 106-119 and the catch at 134: DEPLOYMENTS_QUERY answered with no  *)
(* edge ("none"), with a deployment of some status, or with a failure.     *)
StatusDeploymentsStep(r, ans) ==
  /\ r.pc = "deployments"
  /\ IF ans = "fail"
       THEN StatusFinish(r, [QueryFailed(r) EXCEPT !.asOf = depGen[r.iid]])
       ELSE StatusGoto(r, [r EXCEPT
              !.deployment = IF ans = "none" THEN NoDeployment
                             ELSE [id |-> depGen[r.iid], status |-> ans],
              !.asOf = depGen[r.iid],
              !.pc = "project"])
  /\ StatusVarsUnchanged

ProjectAnswers == { "custom+service", "custom", "service", "nodomain", "fail" }

(* domain = cd || sd || null *)
DomainOf(ans) ==
  IF ans \in {"custom+service", "custom"} THEN "custom.example.com"
  ELSE IF ans = "service" THEN "svc.up.railway.app"
  ELSE NoDomain

(* Variant: the probe is made whenever a domain is known. *)
ProbeWheneverDomain(domain, deployment) == domain # NoDomain

(* Line 139: the probe is made when a domain is known and the deployment   *)
(* succeeded.                                                              *)
ProbeNeeded(domain, deployment) ==
  domain # NoDomain /\ deployment.status = "SUCCESS"

(* Lines 122-150: PROJECT_QUERY answered; a failure replaces the           *)
(* deployment by the UNKNOWN marker.                                       *)
StatusProjectStep(r, ans) ==
  LET q == IF ans = "fail" THEN QueryFailed(r)
           ELSE [r EXCEPT !.domain = DomainOf(ans)]
  IN  /\ r.pc = "project"
      /\ IF ProbeNeeded(q.domain, q.deployment)
           THEN StatusGoto(r, [q EXCEPT !.pc = "health"])
           ELSE StatusFinish(r, q)
      /\ StatusVarsUnchanged

(* The probe's outcome: a 2xx answer with its JSON body, another status,  *)
(* or a timeout.                                                           *)
HealthAnswers ==
  { [ok |-> o, configured |-> c, reachable |-> g] : o, c, g \in BOOLEAN }

HealthOf(ans) ==
  IF ans.ok
    THEN [present |-> TRUE, configured |-> ans.configured, reachable |-> ans.reachable]
    ELSE NoHealth

(* Lines 141-149: the probe answered, timed out or threw. *)
StatusHealthStep(r, ans) ==
  /\ r.pc = "health"
  /\ StatusFinish(r, [r EXCEPT !.health = HealthOf(ans)])
  /\ StatusVarsUnchanged

(* Time passes. *)
Tick ==
  /\ now + TickMs <= MaxTicks * TickMs
  /\ now' = now + TickMs
  /\ resp' = NoResp
  /\ UNCHANGED <<fleet, nextTid, nextIid, tsConfigured, libVars, statusCache, depGen,
                 creates, tdels, lifes, stats>>

----------------------------------------------------------------------------
(* store.js, file layer: what DATA_DIR holds.  A document is the parsed    *)
(* content of fleet.json: version 2 has the tenants map, version 1 the     *)
(* flat instances map.  A file holds the JSON text of a document, whole    *)
(* or cut short by a write that failed part-way.                           *)

Document(version, tenants, instances) ==
  [version |-> version, tenants |-> tenants, instances |-> instances]

NoDocument == Document(0, NoInstances, NoInstances)

(* JSON.stringify(data, null, 2) and JSON.parse(raw) on the documents of   *)
(* the store.  A text is a sequence of tokens: an object is <<"{">>, one  *)
(* member <<key, value>> per own property in insertion order, <<"}">>; a   *)
(* number is its decimal digits; the keys of the tenants and instances     *)
(* maps are the ids, inserted in increasing order.                         *)

DigitValue(c) == CHOOSE d \in 0..9 : DigitChars[d + 1] = c

(* parseInt(s, 10) of a string of decimal digits *)
RECURSIVE ParseInt(_)
ParseInt(s) ==
  IF s = <<>> THEN 0
  ELSE 10 * ParseInt(SubSeq(s, 1, Len(s) - 1)) + DigitValue(s[Len(s)])

RECURSIVE NumberText(_)
NumberText(n) ==
  IF n < 10 THEN <<DigitChars[n + 1]>>
  ELSE NumberText(n \div 10) \o <<DigitChars[(n % 10) + 1]>>

Open == <<"{">>
Close == <<"}">>

InstanceText(inst) ==
  << Open, <<"id", NumberText(inst.id)>>, <<"name", inst.name>>,
     <<"railway", inst.railway>>, <<"config", inst.config>>,
     <<"tailscale", inst.tailscale>>, <<"notes", inst.notes>>, Close >>

RECURSIVE InstanceMembers(_)
InstanceMembers(m) ==
  IF DOMAIN m = {} THEN <<>>
  ELSE LET i == CHOOSE x \in DOMAIN m : \A y \in DOMAIN m : x <= y
       IN  << <<NumberText(i), InstanceText(m[i])>> >> \o InstanceMembers(Without(m, i))

InstancesText(m) == <<Open>> \o InstanceMembers(m) \o <<Close>>

(* Variant: a property whose value is null is left out of the text. *)
TenantTextSkipsNull(t) ==
  << Open, <<"id", NumberText(t.id)>>, <<"name", t.name>>, <<"slug", t.slug>>,
     <<"notes", t.notes>>, <<"instances", InstancesText(t.instances)>>, Close >>

TenantText(t) ==
  << Open, <<"id", NumberText(t.id)>>, <<"name", t.name>>, <<"slug", t.slug>>,
     <<"notes", t.notes>>, <<"tailscale", t.tailscale>>,
     <<"instances", InstancesText(t.instances)>>, Close >>

RECURSIVE TenantMembers(_)
TenantMembers(m) ==
  IF DOMAIN m = {} THEN <<>>
  ELSE LET i == CHOOSE x \in DOMAIN m : \A y \in DOMAIN m : x <= y
       IN  << <<NumberText(i), TenantText(m[i])>> >> \o TenantMembers(Without(m, i))

TenantsText(m) == <<Open>> \o TenantMembers(m) \o <<Close>>

(* A version-2 document has the tenants map, a version-1 document the      *)
(* flat instances map.                                                     *)
Stringify(doc) ==
  << Open, <<"version", NumberText(doc.version)>>,
     IF doc.version >= 2 THEN <<"tenants", TenantsText(doc.tenants)>>
                         ELSE <<"instances", InstancesText(doc.instances)>>,
     Close >>

(* JSON.parse throws on a text that is empty or cut short. *)
Parses(text) == Len(text) >= 2 /\ text[1] = Open /\ text[Len(text)] = Close

Keys(text) == { text[i][1] : i \in 2..(Len(text) - 1) }

(* The value of the last member with the key. *)
Member(text, key) ==
  LET is == { i \in 2..(Len(text) - 1) : text[i][1] = key }
  IN  text[CHOOSE i \in is : \A j \in is : j <= i][2]

ParseInstance(text) ==
  [k \in Keys(text) |-> IF k = "id" THEN ParseInt(Member(text, k))
                        ELSE Member(text, k)]

ParseInstances(text) ==
  [i \in { ParseInt(k) : k \in Keys(text) } |->
     ParseInstance(Member(text, NumberText(i)))]

ParseTenant(text) ==
  [k \in Keys(text) |-> IF k = "id" THEN ParseInt(Member(text, k))
                        ELSE IF k = "instances" THEN ParseInstances(Member(text, k))
                        ELSE Member(text, k)]

ParseTenants(text) ==
  [i \in { ParseInt(k) : k \in Keys(text) } |->
     ParseTenant(Member(text, NumberText(i)))]

Parse(text) ==
  Document(ParseInt(Member(text, "version")),
           IF "tenants" \in Keys(text) THEN ParseTenants(Member(text, "tenants"))
                                       ELSE NoInstances,
           IF "instances" \in Keys(text) THEN ParseInstances(Member(text, "instances"))
                                         ELSE NoInstances)

(* A file: whether it exists and the text it holds.  Truncated: what a     *)
(* write that failed part-way leaves.                                      *)
File(doc) == [exists |-> TRUE, text |-> Stringify(doc)]
Truncated(doc) ==
  [exists |-> TRUE, text |-> SubSeq(Stringify(doc), 1, Len(Stringify(doc)) - 1)]
NoFile == [exists |-> FALSE, text |-> <<>>]

(* readFileSync and JSON.parse both succeed on the file. *)
Readable(file) == file.exists /\ Parses(file.text)

(* The document JSON.parse makes of the file's text. *)
DocOf(file) == IF Readable(file) THEN Parse(file.text) ELSE NoDocument

(* fleet.json, fleet.json.tmp, fleet.bak-premigrate.json and the latest    *)
(* fleet.bak-<timestamp>.json                                              *)
Disk(store, tmp, premigrate, backup) ==
  [store |-> store, tmp |-> tmp, premigrate |-> premigrate, backup |-> backup]

NoTenantArg == Tenant(NoTenant, <<>>, <<>>, "", NoInstances)

(* No store.js call is running.  caller: the exported function called;     *)
(* ctx: the call site of the save() in progress; data: the document in     *)
(* memory; tenant: the argument of addTenant; read: the document load()    *)
(* parsed, ret: the document load() returned, threw: the call threw, bak:  *)
(* what became of the backup copy of the save in progress or last made     *)
(* ("none": not attempted).                                                *)
StoreIdle ==
  [pc |-> "idle", caller |-> "none", ctx |-> "none", data |-> NoDocument,
   tenant |-> NoTenantArg, read |-> NoDocument, ret |-> NoDocument,
   threw |-> FALSE, bak |-> "none"]

GqlCalls == 1..MaxCalls

GqlIdle == [pc |-> "idle", sent |-> 0, waitMs |-> 0, result |-> "none"]

(* In the specifications of the request handlers the registry document   *)
(* is `fleet` and every store.js call is one step, so the files, the calls *)
(* of the client and the slugify computations are not followed there.      *)
LibInit ==
  /\ disk = Disk(NoFile, NoFile, NoFile, NoFile)
  /\ storeOp = StoreIdle
  /\ gql = [c \in GqlCalls |-> GqlIdle]
  /\ sName = <<>>
  /\ sSlugs = <<>>

----------------------------------------------------------------------------
(* The registry and provisioning specification: the process after its      *)
(* first start (load() wrote the Default tenant), serving tenant and       *)
(* instance requests concurrently.                                         *)

InstanceIdInputs == 1..MaxInstances

Init ==
  /\ fleet = emptyStore(1)
  /\ nextTid = 2
  /\ nextIid = 1
  /\ tsConfigured \in BOOLEAN
  /\ statusCache = EmptyCache
  /\ now = 0
  /\ depGen = [i \in 1..(MaxInstances + 1) |-> 0]
  /\ creates = {}
  /\ tdels = {}
  /\ lifes = {}
  /\ stats = {}
  /\ resp = NoResp
  /\ LibInit

(* The tenant ids clients name: those in the registry and one that is not. *)
KnownOrNotTenants == DOMAIN fleet \cup {nextTid}

CreateRequests ==
  \/ \E route \in Routes, t \in KnownOrNotTenants, raw \in InstanceNameInputs :
        CreateStart(route, t, raw)
  \/ \E c \in creates, out \in {"ok", "noenv", "fail"} : CreateProjectStep(c, out)
  \/ \E c \in creates, ok \in BOOLEAN : CreateServiceStep(c, ok)
  \/ \E c \in creates, ok \in BOOLEAN : CreateVolumeStep(c, ok)
  \/ \E c \in creates, ok \in BOOLEAN : CreateVarsStep(c, ok)
  \/ \E c \in creates, ok \in BOOLEAN : CreateTsTokenStep(c, ok)
  \/ \E c \in creates, ok \in BOOLEAN : CreateTsKeyStep(c, ok)
  \/ \E c \in creates, ok \in BOOLEAN : CreateTsUpsertStep(c, ok)
  \/ \E c \in creates, ok \in BOOLEAN : CreateDomainStep(c, ok)
  \/ \E c \in creates, ok \in BOOLEAN : CreateDeployStep(c, ok)

(* The instance ids clients name: those in the registry and one that is    *)
(* not.                                                                    *)
KnownOrNot == AllInstanceIds(fleet) \cup {nextIid}

LifeRequests ==
  \/ \E op \in LifeOps, route \in Routes, i \in KnownOrNot :
        LifeStart(op, route, 1, i)
  \/ \E l \in lifes, ok \in BOOLEAN : LifeStep(l, ok)

StatusRequests ==
  \/ \E src \in Sources, route \in Routes, i \in KnownOrNot :
        GetStatusStart(src, route, 1, i)
  \/ \E r \in stats, ans \in {"SUCCESS", "fail"} : StatusDeploymentsStep(r, ans)
  \/ \E r \in stats, ans \in {"service", "fail"} : StatusProjectStep(r, ans)
  \/ \E r \in stats, ans \in {a \in HealthAnswers : a.configured /\ a.reachable} :
        StatusHealthStep(r, ans)

(* Tenant administration alone. *)
NextTenants ==
  \/ \E raw \in TenantNameInputs : PostTenant(raw)
  \/ \E t \in KnownOrNotTenants, raw \in TenantNameInputs :
        PatchTenant(t, TRUE, raw, FALSE, "")
  \/ \E t \in KnownOrNotTenants, n \in NotesInputs :
        PatchTenant(t, FALSE, <<>>, TRUE, n)
  \/ \E t \in KnownOrNotTenants : DeleteTenantStart(t)

SpecTenants == Init /\ [][NextTenants]_vars

(* Provisioning and teardown running concurrently. *)
Next ==
  \/ CreateRequests
  \/ \E t \in KnownOrNotTenants : DeleteTenantStart(t)
  \/ \E d \in tdels, i \in InstanceIdInputs, ok \in BOOLEAN : DeleteTenantStep(d, i, ok)

Spec == Init /\ [][Next]_vars

(* Provisioning against a control plane that may answer 429, where every   *)
(* request a workflow has pending is answered in the end.                  *)
NextLive ==
  \/ CreateRequests
  \/ \E c \in creates : CreateThrottled(c)

(* Some answer arrives for the request workflow i has pending. *)
Answered(i) ==
  \E c \in creates :
    /\ c.iid = i
    /\ \/ \E out \in {"ok", "noenv", "fail"} : CreateProjectStep(c, out)
       \/ \E ok \in BOOLEAN :
            \/ CreateServiceStep(c, ok) \/ CreateVolumeStep(c, ok)
            \/ CreateVarsStep(c, ok) \/ CreateTsTokenStep(c, ok)
            \/ CreateTsKeyStep(c, ok) \/ CreateTsUpsertStep(c, ok)
            \/ CreateDomainStep(c, ok) \/ CreateDeployStep(c, ok)
       \/ CreateThrottled(c)

SpecLive ==
  Init /\ [][NextLive]_vars /\ \A i \in InstanceIdInputs : WF_vars(Answered(i))

(* Provisioning, and status reads of the instances it has stored, one      *)
(* read at a time, started while no workflow is running.                   *)
NextApi ==
  \/ CreateRequests
  \/ \E src \in Sources, route \in Routes, i \in InstanceIdInputs :
        stats = {} /\ creates = {} /\ GetStatusStart(src, route, 1, i)
  \/ \E r \in stats, ans \in {"SUCCESS", "fail"} : StatusDeploymentsStep(r, ans)
  \/ \E r \in stats, ans \in {"service", "fail"} : StatusProjectStep(r, ans)
  \/ \E r \in stats, ans \in {a \in HealthAnswers : a.configured /\ a.reachable} :
        StatusHealthStep(r, ans)

SpecApi == Init /\ [][NextApi]_vars

(* Status reads and lifecycle operations on a registry that holds one      *)
(* instance, provisioned without a mesh key.                               *)
FirstInstance ==
  Instance([iid |-> 1, cleanName |-> <<"X"," ","1">>,
            projectId |-> RemoteId("project", 1),
            environmentId |-> RemoteId("environment", 1),
            serviceId |-> RemoteId("service", 1),
            volumeId |-> RemoteId("volume", 1),
            tailscaleHostname |-> NoHostname])

InitStatus ==
  /\ fleet = addInstance(emptyStore(1), 1, FirstInstance)
  /\ nextTid = 2
  /\ nextIid = 2
  /\ tsConfigured = FALSE
  /\ statusCache = EmptyCache
  /\ now = 0
  /\ depGen = [i \in 1..(MaxInstances + 1) |-> 0]
  /\ creates = {}
  /\ tdels = {}
  /\ lifes = {}
  /\ stats = {}
  /\ resp = NoResp
  /\ LibInit

(* Status reads racing with lifecycle operations. *)
NextStatus == StatusRequests \/ LifeRequests

SpecStatus == InitStatus /\ [][NextStatus]_vars

(* Status reads as time passes. *)
NextCache == StatusRequests \/ Tick

SpecCache == InitStatus /\ [][NextCache]_vars

(* One status read after another of the first instance, each query and the *)
(* probe answering in every way they can.                                  *)
NextSnapshot ==
  \/ \E src \in Sources, route \in Routes :
        stats = {} /\ GetStatusStart(src, route, 1, 1)
  \/ \E r \in stats, ans \in DeploymentAnswers : StatusDeploymentsStep(r, ans)
  \/ \E r \in stats, ans \in ProjectAnswers : StatusProjectStep(r, ans)
  \/ \E r \in stats, ans \in HealthAnswers : StatusHealthStep(r, ans)

SpecSnapshot == InitStatus /\ [][NextSnapshot]_vars

(* The operations on a stored instance and its tenant: tenant and instance *)
(* updates through the store, restart, redeploy and delete.                *)
NextRegistry ==
  \/ \E t \in KnownOrNotTenants, i \in KnownOrNot, kind \in {"notes", "railway"} :
        UpdateInstance(t, i, kind)
  \/ \E t \in KnownOrNotTenants, raw \in {DefaultName, <<"A","b">>} :
        PatchTenant(t, TRUE, raw, FALSE, "")
  \/ \E t \in KnownOrNotTenants, n \in NotesInputs :
        PatchTenant(t, FALSE, <<>>, TRUE, n)
  \/ \E t \in KnownOrNotTenants, kind \in {"notes", "instances"} :
        UpdateTenant(t, kind)
  \/ LifeRequests

SpecRegistry == InitStatus /\ [][NextRegistry]_vars

----------------------------------------------------------------------------
(* railway-api.js: railwayGql(query, variables).  One call is a chain of   *)
(* fetches: the function awaits the response, and on status 429 awaits a   *)
(* timer and calls itself with the same arguments.                         *)

DefaultRetryAfter == <<"5">>

(* The Retry-After header of a 429 response; <<>> when it is absent. *)
RetryAfterHeaders == { <<>>, <<"1">>, <<"1","0">> }

(* parseInt(res.headers.get("Retry-After") || "5", 10) *)
RetryAfter(header) ==
  ParseInt(IF header = <<>> THEN DefaultRetryAfter ELSE header)

(* What the control plane answers to one request: the HTTP status and,     *)
(* for status 200, whether the body has a non-empty errors array.          *)
GqlAnswers ==
  [status : {429}, header : RetryAfterHeaders, errors : {FALSE}] \cup
  [status : {200}, header : {<<>>}, errors : BOOLEAN] \cup
  [status : {500}, header : {<<>>}, errors : {FALSE}]

GqlVarsUnchanged == UNCHANGED <<appVars, disk, storeOp, sName, sSlugs>>

(* Line 610: the caller's invocation sends the first request. *)
GqlCall(c) ==
  /\ gql[c].pc \in {"idle", "done"}
  /\ gql' = [gql EXCEPT ![c] = [GqlIdle EXCEPT !.pc = "fetch", !.sent = 1]]
  /\ GqlVarsUnchanged

(* Lines 620-638: the response of the pending request is examined. *)
GqlResponse(c, ans) ==
  /\ gql[c].pc = "fetch"
  /\ gql' = [gql EXCEPT ![c] =
       IF ans.status = 429
         THEN [@ EXCEPT !.pc = "wait", !.waitMs = RetryAfter(ans.header) * 1000]
       ELSE IF ans.status # 200
         THEN [@ EXCEPT !.pc = "done", !.result = "httpError"]
       ELSE IF ans.errors
         THEN [@ EXCEPT !.pc = "done", !.result = "gqlError"]
       ELSE [@ EXCEPT !.pc = "done", !.result = "data"]]
  /\ GqlVarsUnchanged

(* Lines 623-624: the timer fires and railwayGql calls itself, which       *)
(* sends the request again.                                                *)
GqlRetry(c) ==
  /\ gql[c].pc = "wait"
  /\ gql[c].sent < MaxRequests
  /\ gql' = [gql EXCEPT ![c] = [@ EXCEPT !.pc = "fetch", !.sent = @ + 1,
                                         !.waitMs = 0]]
  /\ GqlVarsUnchanged

----------------------------------------------------------------------------
(* store.js: slugify applied to sanitized names, and to its own result.    *)

RECURSIVE Repeat(_, _)
Repeat(c, n) == IF n = 0 THEN <<>> ELSE <<c>> \o Repeat(c, n - 1)

(* Names as the sanitisation of the handlers lets them through: letters,   *)
(* digits, spaces and hyphens, at most NameMax characters.  A run of       *)
(* letters of any length up to MaxRun, then one separator or letter, then  *)
(* a short tail; with and without a separator in front.                    *)
SlugNameInputs ==
  { front \o Repeat("a", n) \o <<mid>> \o Repeat("B", k) :
      front \in { <<>>, <<"-">>, <<" ">> },
      n \in 0..MaxRun,
      mid \in { " ", "-", "1", "Z" },
      k \in 0..2 }

SlugVarsUnchanged == UNCHANGED <<appVars, disk, storeOp, gql>>

(* slugify(name), then slugify of the result, up to MaxApply times *)
ApplySlugify ==
  /\ Len(sSlugs) < MaxApply
  /\ sSlugs' = Append(sSlugs,
                  slugify(IF sSlugs = <<>> THEN sName ELSE sSlugs[Len(sSlugs)]))
  /\ UNCHANGED sName
  /\ SlugVarsUnchanged

----------------------------------------------------------------------------
(* store.js, file layer: load() and save(data).  Both are synchronous; a   *)
(* step is one file operation, so that the files can be looked at between  *)
(* two operations, and each operation may throw.                           *)

MigrationNotes == "Auto-created during migration from v1."

(* migrateV1toV2(data); id is the uuid it draws *)
migrateV1toV2(data, id) ==
  IF data.version >= 2 THEN data
  ELSE Document(2,
         (id :> Tenant(id, DefaultName, DefaultSlug, MigrationNotes, data.instances)),
         NoInstances)

(* The flat instances map of a version-1 document. *)
LegacyInstance(i) ==
  Instance([iid |-> i, cleanName |-> <<"X">>,
            projectId |-> RemoteId("project", i),
            environmentId |-> RemoteId("environment", i),
            serviceId |-> RemoteId("service", i),
            volumeId |-> RemoteId("volume", i),
            tailscaleHostname |-> NoHostname])

LegacyInstanceMaps ==
  { [i \in ids |-> LegacyInstance(i)] : ids \in SUBSET (1..MaxInstances) }

(* The tenant an addTenant call passes. *)
NewTenant(id) == Tenant(id, <<"T">>, <<"t">>, "", NoInstances)

(* Variant: the document is written over fleet.json itself. *)
WriteInPlace == "store"

(* Line 483: the file writeFileSync writes to. *)
WriteTarget == "tmp"

StoreVarsUnchanged ==
  UNCHANGED <<fleet, nextIid, tsConfigured, statusCache, now, depGen, creates,
              tdels, lifes, stats, resp, gql, sName, sSlugs>>

(* save(data) is entered from call site ctx; lines 469-472: with a         *)
(* fleet.json present the backup copy comes first.                         *)
SaveEnter(o, ctx, data, exists) ==
  [o EXCEPT !.pc = IF exists THEN "backup" ELSE "write",
            !.ctx = ctx, !.data = data, !.bak = "none"]

(* load() returns data (line 459 or 464).  A bare load() is over; addTenant *)
(* (lines 508-514) sets data.tenants[tenant.id] and saves.                  *)
LoadReturned(o, data, exists) ==
  IF o.caller = "load"
    THEN [o EXCEPT !.pc = "idle", !.ctx = "none", !.data = data, !.ret = data]
    ELSE SaveEnter([o EXCEPT !.ret = data], "op",
                   [data EXCEPT !.tenants = addTenant(@, o.tenant)], exists)

(* The catch of load() (lines 460-462): emptyStore() and save. *)
LoadCaught(o, id, exists) ==
  SaveEnter(o, "fresh", Document(2, emptyStore(id), NoInstances), exists)

(* The exception leaves the exported function. *)
StoreThrown(o) == [o EXCEPT !.pc = "idle", !.ctx = "none", !.threw = TRUE]

(* An exception inside save(): within the try of load() it is caught,      *)
(* within the catch of load() or in addTenant it reaches the caller.       *)
SaveThrew ==
  IF storeOp.ctx = "migrate"
    THEN /\ nextTid <= MaxTenants
         /\ storeOp' = LoadCaught(storeOp, nextTid, disk'.store.exists)
         /\ nextTid' = nextTid + 1
    ELSE /\ storeOp' = StoreThrown(storeOp)
         /\ UNCHANGED nextTid

(* save() returned: to load(), which returns the document, or to           *)
(* addTenant, which is over.                                               *)
SaveReturned ==
  IF storeOp.ctx = "op"
    THEN storeOp' = [storeOp EXCEPT !.pc = "idle", !.ctx = "none"]
    ELSE storeOp' = LoadReturned(storeOp, storeOp.data, disk'.store.exists)

(* A call of load() (caller "load", as getAllTenants and the other reads   *)
(* make it) or of addTenant: lines 441-446, 460-461.                       *)
StoreCall(caller) ==
  /\ storeOp.pc = "idle"
  /\ LET o == [StoreIdle EXCEPT !.caller = caller,
                 !.tenant = IF caller = "addTenant" THEN NewTenant(nextTid)
                            ELSE NoTenantArg,
                 !.read = DocOf(disk.store)]
         ids == IF caller = "addTenant" THEN 1 ELSE 0
     IN  /\ nextTid + ids <= MaxTenants + 1
         /\ IF ~Readable(disk.store)
              THEN \* readFileSync or JSON.parse throws
                   /\ nextTid + ids <= MaxTenants
                   /\ storeOp' = LoadCaught(o, nextTid + ids, disk.store.exists)
                   /\ nextTid' = nextTid + ids + 1
            ELSE IF o.read.version < 2
              THEN /\ storeOp' = [o EXCEPT !.pc = "premigrate",
                                           !.data = o.read]
                   /\ nextTid' = nextTid + ids
            ELSE /\ storeOp' = LoadReturned(o, o.read, TRUE)
                 /\ nextTid' = nextTid + ids
  /\ UNCHANGED disk
  /\ StoreVarsUnchanged

(* Lines 448-455: the copy to fleet.bak-premigrate.json, best-effort; the  *)
(* migration; save(data).                                                  *)
PremigrateStep(ok) ==
  /\ storeOp.pc = "premigrate"
  /\ nextTid <= MaxTenants
  /\ disk' = IF ok THEN [disk EXCEPT !.premigrate = disk.store] ELSE disk
  /\ storeOp' = SaveEnter(storeOp, "migrate",
                          migrateV1toV2(storeOp.data, nextTid), TRUE)
  /\ nextTid' = nextTid + 1
  /\ StoreVarsUnchanged

(* Variant: a failed backup copy throws out of save(). *)
BackupFailureThrows == SaveThrew

(* Lines 476-478: the catch around copyFileSync is empty; the write        *)
(* follows.                                                                *)
BackupFailureIgnored ==
  /\ storeOp' = [storeOp EXCEPT !.pc = "write", !.bak = "failed"]
  /\ UNCHANGED nextTid

(* Lines 472-480: the timestamped backup, best-effort. *)
SaveBackupStep(ok) ==
  /\ storeOp.pc = "backup"
  /\ IF ok
       THEN /\ disk' = [disk EXCEPT !.backup = disk.store]
            /\ storeOp' = [storeOp EXCEPT !.pc = "write", !.bak = "copied"]
            /\ UNCHANGED nextTid
       ELSE /\ disk' = disk
            /\ BackupFailureIgnored
  /\ StoreVarsUnchanged

(* Line 484: writeFileSync.  out: "ok"; "partial" (part of the text is     *)
(* written, then the call throws); "fail" (the call throws at once).       *)
SaveWriteStep(out) ==
  /\ storeOp.pc = "write"
  /\ IF out = "ok"
       THEN /\ disk' = [disk EXCEPT ![WriteTarget] = File(storeOp.data)]
            /\ storeOp' = [storeOp EXCEPT !.pc = "rename"]
            /\ UNCHANGED nextTid
       ELSE /\ disk' = IF out = "partial"
                         THEN [disk EXCEPT ![WriteTarget] = Truncated(storeOp.data)]
                         ELSE disk
            /\ SaveThrew
  /\ StoreVarsUnchanged

(* Line 485: renameSync, which replaces fleet.json in one step or throws.  *)
SaveRenameStep(ok) ==
  /\ storeOp.pc = "rename"
  /\ IF ok /\ disk.tmp.exists
       THEN /\ disk' = [disk EXCEPT !.store = disk.tmp, !.tmp = NoFile]
            /\ SaveReturned
            /\ UNCHANGED nextTid
       ELSE /\ disk' = disk
            /\ SaveThrew
  /\ StoreVarsUnchanged

----------------------------------------------------------------------------
(* The specifications of the file layer, the client and slugify.           *)

(* No request is being handled. *)
HandlersIdle ==
  /\ fleet = emptyStore(1)
  /\ nextIid = 1
  /\ tsConfigured = FALSE
  /\ statusCache = EmptyCache
  /\ now = 0
  /\ depGen = [i \in 1..(MaxInstances + 1) |-> 0]
  /\ creates = {}
  /\ tdels = {}
  /\ lifes = {}
  /\ stats = {}
  /\ resp = NoResp

(* railwayGql calls against a control plane that answers as it likes. *)
InitClient ==
  /\ HandlersIdle
  /\ nextTid = 2
  /\ LibInit

NextClient ==
  \/ \E c \in GqlCalls : GqlCall(c)
  \/ \E c \in GqlCalls, ans \in GqlAnswers : GqlResponse(c, ans)
  \/ \E c \in GqlCalls : GqlRetry(c)

SpecClient == InitClient /\ [][NextClient]_vars

(* slugify on the names the sanitisation lets through. *)
InitSlug ==
  /\ HandlersIdle
  /\ nextTid = 2
  /\ disk = Disk(NoFile, NoFile, NoFile, NoFile)
  /\ storeOp = StoreIdle
  /\ gql = [c \in GqlCalls |-> GqlIdle]
  /\ sName \in SlugNameInputs
  /\ sSlugs = <<>>

NextSlug == ApplySlugify

SpecSlug == InitSlug /\ [][NextSlug]_vars

(* The process starts on a DATA_DIR that has no fleet.json, one written    *)
(* by version 1 of the store (flat instances map), or one of version 2;    *)
(* then calls of load() and addTenant follow each other.                   *)
StoreFilesAtStart ==
  { NoFile, File(Document(2, emptyStore(1), NoInstances)) } \cup
  { File(Document(1, NoInstances, m)) : m \in LegacyInstanceMaps }

InitStore ==
  /\ HandlersIdle
  /\ \E f \in StoreFilesAtStart :
        /\ disk = Disk(f, NoFile, NoFile, NoFile)
        /\ nextTid = IF DocOf(f).version = 2 THEN 2 ELSE 1
  /\ storeOp = StoreIdle
  /\ gql = [c \in GqlCalls |-> GqlIdle]
  /\ sName = <<>>
  /\ sSlugs = <<>>

NextStore ==
  \/ \E caller \in {"load", "addTenant"} : StoreCall(caller)
  \/ \E ok \in BOOLEAN : PremigrateStep(ok)
  \/ \E ok \in BOOLEAN : SaveBackupStep(ok)
  \/ \E out \in {"ok", "partial", "fail"} : SaveWriteStep(out)
  \/ \E ok \in BOOLEAN : SaveRenameStep(ok)

SpecStore == InitStore /\ [][NextStore]_vars

----------------------------------------------------------------------------
(* Properties. *)

IsResp(kind, code) == resp.kind = kind /\ resp.code = code

(* C1: no two distinct tenants of the registry have the same slug. *)
UniqueSlugs ==
  \A t, u \in DOMAIN fleet : t # u => fleet[t].slug # fleet[u].slug

(* C2: the registry always holds a tenant with slug "default". *)
DefaultTenantExists == \E t \in DOMAIN fleet : fleet[t].slug = DefaultSlug

StepLog123 ==
  <<"project:start", "project:created", "environment",
    "service:start", "service:created", "volume:start", "volume:created">>

(* C3: when the variable upsert fails, the error response carries a step   *)
(* log holding exactly the lines of the project, service and volume steps, *)
(* and the instance is not in the registry.                                *)
VarsFailureReturnsLog ==
  (IsResp("createInstance", 500) /\ resp.err = "vars") =>
     /\ resp.log = StepLog123
     /\ resp.id \notin AllInstanceIds(fleet)

MeshSteps == { "tsToken", "tsKey", "tsUpsert" }

Skipped(log) == "ts:skipped" \in Range(log)

(* C4: a failure in the mesh-key step never ends the workflow: the handler *)
(* goes on to the domain and deploy steps with no mesh hostname, no error  *)
(* response reports a mesh step, and a success response after a skipped    *)
(* mesh step has run the domain step, the deploy trigger and the registry  *)
(* write, the stored instance having no mesh hostname.                     *)
MeshFailureSwallowed ==
  /\ \A c \in creates :
        Skipped(c.log) => /\ c.pc \in {"domain", "deploy"}
                          /\ c.tailscaleHostname = NoHostname
  /\ IsResp("createInstance", 500) => resp.err \notin MeshSteps
  /\ (IsResp("createInstance", 200) /\ Skipped(resp.log)) =>
        /\ {"domain:start", "deploy:triggered", "saved"} \subseteq Range(resp.log)
        /\ \A t \in DOMAIN fleet :
              resp.id \in DOMAIN fleet[t].instances =>
                fleet[t].instances[resp.id].tailscale = NoHostname

MeshFailureWitness ==
  /\ IsResp("createInstance", 200)
  /\ Skipped(resp.log)
  /\ HasInstance(fleet, resp.detail.tid, resp.id)

(* C5: when a tenant delete completes, the tenant and the instances it     *)
(* read are out of the registry, a remote deletion was requested for every *)
(* one of them, and the warning lists exactly the deletions that failed.   *)
TenantDeleteRemovesAll ==
  IsResp("deleteTenant", 200) =>
    /\ resp.id \notin DOMAIN fleet
    /\ resp.detail.instances \cap AllInstanceIds(fleet) = {}
    /\ resp.detail.requested = resp.detail.instances
    /\ resp.detail.warned = resp.detail.failed

TenantDeleteWitness ==
  /\ IsResp("deleteTenant", 200)
  /\ Cardinality(resp.detail.instances) = 2
  /\ Cardinality(resp.detail.failed) = 1

(* C6: a failed remote deletion leaves the registry and the status cache   *)
(* as they were and answers with an error; an instance leaves the registry *)
(* only in a step that answers a delete with success.                      *)
InstanceDeleteOnlyOnSuccess ==
  [][ /\ (resp'.kind = "PROJECT_DELETE" /\ resp'.code = 500) =>
           (fleet' = fleet /\ statusCache' = statusCache)
      /\ (AllInstanceIds(fleet') # AllInstanceIds(fleet)) =>
           (resp'.kind = "PROJECT_DELETE" /\ resp'.code = 200) ]_vars

InstanceDeleteFailedWitness ==
  /\ IsResp("PROJECT_DELETE", 500)
  /\ resp.id \in AllInstanceIds(fleet)
  /\ resp.id \in DOMAIN statusCache

(* C7: a status read is answered from the cache only when the entry was    *)
(* stored less than 30 seconds earlier, and then with that entry's         *)
(* snapshot; a list read that finds such an entry queries nothing; a read  *)
(* that queries stores its snapshot as the entry, stamped with the time.   *)
CacheTtl ==
  /\ (IsResp("status", 200) /\ resp.detail.cached) =>
        /\ resp.detail.seen = "young"
        /\ resp.id \in DOMAIN statusCache
        /\ now - statusCache[resp.id].fetchedAt < 30000
        /\ resp.detail.data = statusCache[resp.id].data
  /\ \A r \in stats : r.src = "list" => r.seen # "young"
  /\ (IsResp("status", 200) /\ ~resp.detail.cached) =>
        /\ resp.id \in DOMAIN statusCache
        /\ statusCache[resp.id].data = resp.detail.data
        /\ statusCache[resp.id].fetchedAt = now

CacheTtlWitness ==
  /\ IsResp("status", 200)
  /\ ~resp.detail.cached
  /\ resp.detail.src = "list"
  /\ resp.detail.seen = "old"

(* C8: a status read answered from the cache reports data queried no       *)
(* earlier than the last redeploy or restart of the instance.              *)
StatusFreshAfterLifecycle ==
  (IsResp("status", 200) /\ resp.detail.cached) =>
     resp.detail.asOf >= depGen[resp.id]

(* C9: a detail request is never answered from the cache. *)
DetailNeverCached ==
  (IsResp("status", 200) /\ resp.detail.src = "detail") => ~resp.detail.cached

DetailWitness ==
  \E r \in stats : r.src = "detail" /\ r.seen = "young"

(* C10: after a success response of createInstance the instance is in the  *)
(* registry under the requested tenant, with the identifiers the response  *)
(* reports and a volume identifier.                                        *)
CreateSuccessStored ==
  IsResp("createInstance", 200) =>
    /\ HasInstance(fleet, resp.detail.tid, resp.id)
    /\ LET r == fleet[resp.detail.tid].instances[resp.id].railway
       IN  /\ r.projectId = resp.detail.railway.projectId
           /\ r.serviceId = resp.detail.railway.serviceId
           /\ r.environmentId = resp.detail.railway.environmentId
           /\ r.volumeId # NoId

(* C11: one call of the control-plane client sends at most two requests:   *)
(* a 429 response is followed by one wait and one retry, and the call does *)
(* not wait again after a second 429.                                      *)
RetryAtMostOnce ==
  \A c \in GqlCalls :
    /\ gql[c].sent <= 2
    /\ gql[c].pc = "wait" => gql[c].sent = 1

OneTenant(doc) == Cardinality(DOMAIN doc.tenants) = 1

(* C12: a load() that parsed a version-1 document returns a version-2      *)
(* document with exactly one tenant, of slug "default", owning exactly the *)
(* instances of the version-1 document; when fleet.json holds a version-2  *)
(* document in place of the version-1 one, fleet.bak-premigrate.json holds *)
(* the version-1 file; and a load() of a version-2 document changes no     *)
(* file and returns that document.                                         *)
MigrationOnLoad ==
  /\ [] ( /\ (storeOp.read.version = 1 /\ storeOp.ret # NoDocument) =>
               /\ storeOp.ret.version = 2
               /\ OneTenant(storeOp.ret)
               /\ \A t \in DOMAIN storeOp.ret.tenants :
                     /\ storeOp.ret.tenants[t].slug = DefaultSlug
                     /\ storeOp.ret.tenants[t].instances = storeOp.read.instances
          /\ (storeOp.read.version = 1 /\ DocOf(disk.store).version = 2) =>
               disk.premigrate = File(storeOp.read) )
  /\ [][ (storeOp.pc = "idle" /\ storeOp'.caller = "load"
            /\ disk.store.exists /\ DocOf(disk.store).version = 2) =>
           /\ disk' = disk
           /\ storeOp'.ret = DocOf(disk.store) ]_vars

IsFreshDocument(doc) ==
  /\ doc.version = 2
  /\ OneTenant(doc)
  /\ \A t \in DOMAIN doc.tenants :
        doc.tenants[t] = Tenant(t, DefaultName, DefaultSlug, "", NoInstances)

(* C13: a load() that finds no fleet.json writes a fresh document holding  *)
(* only the Default tenant and returns it; a load() that finds a document  *)
(* of version 2 returns that document; and a fleet.json that exists is     *)
(* never replaced by a freshly synthesized document.                       *)
FreshOnlyWhenAbsent ==
  /\ [] ( /\ (storeOp.read = NoDocument /\ storeOp.ret # NoDocument) =>
               /\ IsFreshDocument(storeOp.ret)
               /\ disk.store.exists
          /\ (storeOp.read.version = 2 /\ storeOp.ret # NoDocument) =>
               storeOp.ret = storeOp.read )
  /\ [][ (disk.store.exists /\ disk'.store # disk.store) =>
           storeOp.ctx # "fresh" ]_vars

(* C14: every step of a save leaves fleet.json as it was or replaces it by *)
(* the whole text of the document being saved; fleet.json is never cut     *)
(* short.                                                                  *)
CanonicalFileAtomic ==
  [][ /\ (disk'.store.exists => Readable(disk'.store))
      /\ \/ disk'.store = disk.store
         \/ disk'.store = File(storeOp.data) ]_vars

(* A write to the temporary file was cut short and the save threw, with a  *)
(* fleet.json in place. *)
TruncatedTmpWitness ==
  /\ disk.tmp.exists /\ ~Readable(disk.tmp)
  /\ disk.store.exists
  /\ storeOp.threw

IsSlugChar(c) == IsLower(c) \/ IsDigit(c) \/ c = "-"

(* C15: for a name of letters, digits, spaces and hyphens of at most 50    *)
(* characters, the slug has only characters of [a-z0-9-], does not start   *)
(* or end with a hyphen, and has at most 30 characters.                    *)
SlugWellFormed ==
  (Len(sName) <= 50 /\ sSlugs # <<>>) =>
     LET s == sSlugs[1]
     IN  /\ \A i \in DOMAIN s : IsSlugChar(s[i])
         /\ s # <<>> => (s[1] # "-" /\ s[Len(s)] # "-")
         /\ Len(s) <= 30

(* C16: slugify applied to a slug returns the slug. *)
SlugIdempotent ==
  Len(sSlugs) >= 2 => sSlugs[2] = sSlugs[1]

(* What is left of a request's name after trimming and after dropping the  *)
(* characters outside [a-zA-Z0-9 -].                                      *)
SanitizedNames ==
  [raw \in TenantNameInputs \cup {<<>>} |-> Slice(KeepNameChars(Trim(raw)), 50)]

Sanitized(raw) == SanitizedNames[raw]

SlugOfSanitized ==
  [raw \in TenantNameInputs \cup {<<>>} |-> slugify(SanitizedNames[raw])]

(* C17: a tenant create whose sanitized name has the slug of a tenant in   *)
(* the registry is answered 409 (duplicate slug) and leaves the registry   *)
(* as it was.                                                              *)
DuplicateSlugRejected ==
  [][ (/\ resp'.kind = "createTenant"
       /\ Sanitized(resp'.detail.raw) # <<>>
       /\ \E t \in DOMAIN fleet :
             fleet[t].slug = SlugOfSanitized[resp'.detail.raw])
      => (resp'.code = 409 /\ fleet' = fleet) ]_vars

(* A create was answered 409 for a name that differs from the name of the  *)
(* tenant holding the slug. *)
DuplicateSlugWitness ==
  /\ IsResp("createTenant", 409)
  /\ \E t \in DOMAIN fleet :
        /\ fleet[t].slug = SlugOfSanitized[resp.detail.raw]
        /\ fleet[t].name # Sanitized(resp.detail.raw)

(* C18: a rename sets the tenant's slug to the slug of the new name, and a *)
(* rename whose new slug is held by another tenant is rejected and leaves  *)
(* the tenant's name and slug as they were.                                *)
RenameChecksSlug ==
  [][ (/\ resp'.kind = "updateTenant"
       /\ resp'.detail.hasName
       /\ resp'.id \in DOMAIN fleet
       /\ Sanitized(resp'.detail.raw) # <<>>)
      => LET id == resp'.id
             slug == SlugOfSanitized[resp'.detail.raw]
         IN  IF \E u \in DOMAIN fleet \ {id} : fleet[u].slug = slug
               THEN /\ resp'.code # 200
                    /\ fleet'[id].name = fleet[id].name
                    /\ fleet'[id].slug = fleet[id].slug
               ELSE fleet'[id].slug = slug ]_vars

(* C19: a tenant create whose name is empty after the sanitisation is      *)
(* answered 400 (invalid name) and writes nothing to the registry.         *)
EmptyNameRejected ==
  [][ (resp'.kind = "createTenant" /\ Sanitized(resp'.detail.raw) = <<>>)
      => (resp'.code = 400 /\ fleet' = fleet /\ nextTid' = nextTid) ]_vars

(* A name that is not blank, but empty after the sanitisation, was         *)
(* rejected. *)
EmptyNameWitness ==
  /\ IsResp("createTenant", 400)
  /\ Trim(resp.detail.raw) # <<>>
  /\ Sanitized(resp.detail.raw) = <<>>

(* C20: createInstance answers an unknown tenant (404) or a name empty     *)
(* after the sanitisation (400) in the step that receives the request: no  *)
(* workflow is waiting on a remote call because of it and no instance is   *)
(* added; every workflow that starts is for a tenant of the registry and   *)
(* has a non-empty name.                                                   *)
CreateValidatesFirst ==
  [][ /\ (resp'.kind = "createInstance" /\ resp'.code \in {400, 404})
         => (creates' = creates /\ fleet' = fleet /\ nextIid' = nextIid)
      /\ \A c \in creates' :
           c.iid \notin { d.iid : d \in creates }
             => (c.tid \in DOMAIN fleet /\ c.cleanName # <<>>
                 /\ c.pc = "project" /\ resp'.code = 0) ]_vars

(* A create was rejected for its name while another create was waiting on  *)
(* the control plane. *)
CreateRejectedWitness ==
  /\ IsResp("createInstance", 400)
  /\ resp.err = "name"
  /\ creates # {}

(* C21: a status read never raises: when the deployment query or the       *)
(* project query fails the read still answers with a snapshot, whose       *)
(* deployment status is UNKNOWN and whose composite status is "unknown",   *)
(* and no health probe is made for it.                                     *)
StatusNeverRaises ==
  /\ resp.kind = "status" => resp.code \in {200, 404}
  /\ (IsResp("status", 200) /\ resp.detail.failed # "none") =>
        /\ ~resp.detail.cached
        /\ resp.detail.data.deployment.status = "UNKNOWN"
        /\ resp.detail.data.status = "unknown"
        /\ resp.detail.data.health = NoHealth
  /\ \A r \in stats : r.failed = "none"

StatusFailedWitness ==
  /\ IsResp("status", 200)
  /\ resp.detail.failed = "project"

(* The table of the composite status, first match first. *)
DecisionTable(deployment, health) ==
  CASE deployment = NoDeployment -> "no-deployment"
    [] deployment # NoDeployment /\ deployment.status = "BUILDING" -> "building"
    [] deployment # NoDeployment /\ deployment.status = "DEPLOYING" -> "deploying"
    [] deployment # NoDeployment /\ deployment.status = "FAILED" -> "failed"
    [] deployment # NoDeployment /\ deployment.status = "CRASHED" -> "failed"
    [] deployment # NoDeployment /\ deployment.status = "SUCCESS" ->
         ( CASE health = NoHealth -> "unhealthy"
             [] health # NoHealth /\ ~health.configured -> "needs-setup"
             [] health # NoHealth /\ health.configured /\ health.reachable -> "running"
             [] health # NoHealth /\ health.configured /\ ~health.reachable -> "unhealthy" )
    [] deployment # NoDeployment /\ deployment.status = "REMOVED" -> "stopped"
    [] OTHER -> "unknown"

(* C22: the composite status of every snapshot, returned or cached, is     *)
(* the decision table applied to the snapshot's deployment and health.     *)
CompositeFollowsTable ==
  /\ IsResp("status", 200) =>
        resp.detail.data.status =
          DecisionTable(resp.detail.data.deployment, resp.detail.data.health)
  /\ \A i \in DOMAIN statusCache :
        statusCache[i].data.status =
          DecisionTable(statusCache[i].data.deployment, statusCache[i].data.health)

CompositeWitness ==
  /\ IsResp("status", 200)
  /\ ~resp.detail.cached
  /\ resp.detail.data.deployment.status = "SUCCESS"
  /\ resp.detail.data.status = "needs-setup"

(* C23: creating an instance is not idempotent: a successful create in a   *)
(* tenant of the registry adds an instance under a new id with a new       *)
(* project and leaves every instance the tenant had, those of the same     *)
(* name included, as it was.                                               *)
CreateNotIdempotent ==
  [][\A c \in creates :
       (c.pc = "deploy" /\ c \notin creates' /\ resp'.code = 200
          /\ c.tid \in DOMAIN fleet) =>
         ( /\ c.tid \in DOMAIN fleet'
           /\ c.iid \notin DOMAIN fleet[c.tid].instances
           /\ DOMAIN fleet'[c.tid].instances =
                DOMAIN fleet[c.tid].instances \cup {c.iid}
           /\ \A i \in DOMAIN fleet[c.tid].instances :
                /\ fleet'[c.tid].instances[i] = fleet[c.tid].instances[i]
                /\ fleet[c.tid].instances[i].railway.projectId # c.projectId
           /\ fleet'[c.tid].instances[c.iid].id = c.iid
           /\ fleet'[c.tid].instances[c.iid].name = c.cleanName
           /\ fleet'[c.tid].instances[c.iid].railway.projectId = c.projectId )]_vars

SameNameTwiceWitness ==
  /\ IsResp("createInstance", 200)
  /\ \E t \in DOMAIN fleet : \E i, j \in DOMAIN fleet[t].instances :
        /\ i # j
        /\ j = resp.id
        /\ fleet[t].instances[i].name = fleet[t].instances[j].name
        /\ fleet[t].instances[i].id # fleet[t].instances[j].id
        /\ fleet[t].instances[i].railway.projectId #
             fleet[t].instances[j].railway.projectId

(* The store.js call that ended last saved its document and returned:      *)
(* addTenant, or a load() that found no version-2 document to return.      *)
SavedJustNow ==
  /\ storeOp.pc = "idle"
  /\ ~storeOp.threw
  /\ \/ storeOp.caller = "addTenant"
     \/ storeOp.caller = "load" /\ storeOp.read.version < 2

(* C24: a load() that follows a save(doc) at once returns a document equal *)
(* to doc, without writing anything.                                       *)
SaveLoadRoundTrip ==
  [][ (SavedJustNow /\ storeOp'.caller = "load" /\ storeOp' # storeOp) =>
        /\ storeOp.data.version = 2
        /\ storeOp'.pc = "idle"
        /\ ~storeOp'.threw
        /\ storeOp'.ret = storeOp.data
        /\ disk' = disk ]_vars

RoundTripWitness ==
  /\ storeOp.pc = "idle"
  /\ storeOp.caller = "load"
  /\ storeOp.read.version = 2
  /\ storeOp.ret = storeOp.read
  /\ Cardinality(DOMAIN storeOp.ret.tenants) = 2
  /\ \E t \in DOMAIN storeOp.ret.tenants :
        Cardinality(DOMAIN storeOp.ret.tenants[t].instances) = 2

(* C25: when the deploy trigger succeeded and the workflow's tenant is no  *)
(* longer in the registry, the addInstance call fails: the caller is told  *)
(* of a failure and the registry is unchanged.                             *)
AddToUnknownTenantFails ==
  [][\A c \in creates :
       (c.pc = "deploy" /\ c \notin creates' /\ resp'.err # "deploy"
          /\ c.tid \notin DOMAIN fleet) =>
         (resp'.code # 200 /\ fleet' = fleet)]_vars

(* C26: the project, service, environment and volume identifiers of an     *)
(* instance are the same after every step that keeps the instance.         *)
RemoteRefsNeverChange ==
  [][\A t \in DOMAIN fleet \cap DOMAIN fleet' :
       \A i \in DOMAIN fleet[t].instances \cap DOMAIN fleet'[t].instances :
          fleet'[t].instances[i].railway = fleet[t].instances[i].railway]_vars

(* C27, as stated: the write of a create stores the document the request   *)
(* loaded when it came in with the new instance added, so that what other  *)
(* requests wrote in the meantime is lost.                                 *)
LastWriterWins ==
  [][\A c \in creates :
       (c.pc = "deploy" /\ c \notin creates' /\ resp'.code = 200
          /\ c.tid \in DOMAIN fleet) =>
         fleet' = addInstance(c.loaded, c.tid, Instance(c))]_vars

(* C27, amended: every store operation loads, modifies and saves without   *)
(* yielding, so the write of one request keeps what the others wrote: a    *)
(* step removes no instance of a tenant it keeps and changes none, and it  *)
(* removes no tenant but the one whose deletion it answers.                *)
NoLostUpdate ==
  [][\A t \in DOMAIN fleet :
       IF t \in DOMAIN fleet'
         THEN \A i \in DOMAIN fleet[t].instances :
                /\ i \in DOMAIN fleet'[t].instances
                /\ fleet'[t].instances[i] = fleet[t].instances[i]
         ELSE resp'.kind = "deleteTenant" /\ resp'.code = 200 /\ resp'.id = t]_vars

(* A create has written after a create that came in later had written,     *)
(* and both instances are stored.                                          *)
OverlappingWritesWitness ==
  /\ IsResp("createInstance", 200)
  /\ resp.id \in AllInstanceIds(fleet)
  /\ \E j \in AllInstanceIds(fleet) : j > resp.id

(* The log lines of the required steps, in the order of the workflow. *)
RequiredMarks ==
  <<"project:created", "service:created", "volume:created", "vars:set",
    "deploy:triggered", "saved">>

StepsInOrder(log) ==
  /\ \A k \in 1..Len(RequiredMarks) :
        Cardinality({ p \in 1..Len(log) : log[p] = RequiredMarks[k] }) = 1
  /\ \A k, l \in 1..Len(RequiredMarks) :
        k < l => \A p, q \in 1..Len(log) :
                   (log[p] = RequiredMarks[k] /\ log[q] = RequiredMarks[l]) => p < q
  /\ log[Len(log)] = "saved"

(* C28: an instance enters the registry only in the step that ends a       *)
(* workflow whose project, service, volume, variables and deploy steps     *)
(* succeeded in that order, with the identifiers the workflow obtained;    *)
(* every instance of the registry has its four remote identifiers.         *)
InstanceWrittenLast ==
  /\ [](\A t \in DOMAIN fleet : \A i \in DOMAIN fleet[t].instances :
          /\ fleet[t].instances[i].railway.projectId # NoId
          /\ fleet[t].instances[i].railway.serviceId # NoId
          /\ fleet[t].instances[i].railway.environmentId # NoId
          /\ fleet[t].instances[i].railway.volumeId # NoId)
  /\ [][\A t \in DOMAIN fleet' : \A i \in DOMAIN fleet'[t].instances :
          (t \notin DOMAIN fleet \/ i \notin DOMAIN fleet[t].instances) =>
            \E c \in creates :
              /\ c.iid = i /\ c.tid = t /\ c.pc = "deploy"
              /\ \A d \in creates' : d.iid # i
              /\ resp'.kind = "createInstance" /\ resp'.code = 200 /\ resp'.id = i
              /\ StepsInOrder(resp'.log)
              /\ fleet'[t].instances[i].railway =
                   [projectId |-> c.projectId, serviceId |-> c.serviceId,
                    environmentId |-> c.environmentId, volumeId |-> c.volumeId]]_vars

InstanceWrittenWitness ==
  /\ IsResp("createInstance", 200)
  /\ \E t \in DOMAIN fleet : resp.id \in DOMAIN fleet[t].instances
  /\ \E p \in 1..Len(resp.log) : resp.log[p] = "ts:skipped"

RequiredSteps == { "project", "service", "volume", "vars", "deploy" }

(* C29: the step in which a required provisioning step fails ends the      *)
(* workflow: the handler answers 500, no request of the workflow is        *)
(* pending afterwards, no deletion is requested and the registry is        *)
(* unchanged.                                                              *)
FailureStopsWorkflow ==
  /\ [](\A c \in creates : c.pc \in RequiredSteps \cup {"tsToken", "tsKey", "tsUpsert", "domain"})
  /\ [][(resp'.kind = "createInstance" /\ resp'.code = 500) =>
          \E c \in creates :
            /\ c.iid = resp'.id
            /\ c.pc = resp'.err
            /\ c.pc \in RequiredSteps
            /\ creates' = creates \ {c}
            /\ \A d \in creates' : d.iid # c.iid
            /\ tdels' = tdels /\ lifes' = lifes
            /\ fleet' = fleet]_vars

FailureAfterVolumeWitness ==
  /\ IsResp("createInstance", 500)
  /\ resp.err = "vars"
  /\ creates # {}

(* C30: a failed domain request never ends the workflow: it is written to  *)
(* the log and the deploy trigger follows; when that succeeds the instance *)
(* is stored and the create answers 200 with the note in its log.          *)
DomainFailureNotFatal ==
  /\ [](resp.kind = "createInstance" => resp.err # "domain")
  /\ [][\A c \in creates :
          /\ (c.pc = "domain" /\ c \notin creates') =>
                \E d \in creates' :
                  /\ d = [c EXCEPT !.pc = "deploy", !.log = d.log]
                  /\ d.log \in { c.log \o <<"domain:created", "deploy:start">>,
                                  c.log \o <<"domain:note", "deploy:start">> }
          /\ (c.pc = "deploy" /\ c \notin creates' /\ resp'.err # "deploy"
                /\ \E p \in 1..Len(c.log) : c.log[p] = "domain:note") =>
                /\ resp'.code = 200
                /\ resp'.log = c.log \o <<"deploy:triggered", "saved">>
                /\ c.tid \in DOMAIN fleet => HasInstance(fleet', c.tid, c.iid)]_vars

DomainFailureWitness ==
  /\ IsResp("createInstance", 200)
  /\ \E p \in 1..Len(resp.log) : resp.log[p] = "domain:note"
  /\ \E t \in DOMAIN fleet : resp.id \in DOMAIN fleet[t].instances

(* A domain was discovered and the deployment succeeded. *)
ProbeCase(data) == data.domain # NoDomain /\ data.deployment.status = "SUCCESS"

(* C31: the health probe is pending only for a read that discovered a      *)
(* domain and a SUCCESS deployment; a read that ends without a probe is    *)
(* not in that case; and a snapshot outside that case has no health data.  *)
ProbeIffDomainAndSuccess ==
  /\ [](\A r \in stats : r.pc = "health" => ProbeCase(r))
  /\ [](\A i \in DOMAIN statusCache :
          ~ProbeCase(statusCache[i].data) => statusCache[i].data.health = NoHealth)
  /\ [][\A r \in stats :
          (r.pc # "health" /\ (\A q \in stats' : q.iid # r.iid \/ q.src # r.src)) =>
            /\ resp'.kind = "status" /\ resp'.code = 200 /\ ~resp'.detail.cached
            /\ ~ProbeCase(resp'.detail.data)
            /\ resp'.detail.data.health = NoHealth]_vars

NoProbeWitness ==
  /\ IsResp("status", 200)
  /\ ~resp.detail.cached
  /\ resp.detail.data.domain # NoDomain
  /\ resp.detail.data.deployment.status = "BUILDING"
  /\ resp.detail.data.health = NoHealth

(* C32: a save that finds fleet.json in place attempts the backup copy     *)
(* before it writes, and the copy, when made, is the fleet.json of that    *)
(* moment; whatever the copy's outcome the save goes on to write the same  *)
(* document; and after a failed copy the rename still puts the whole       *)
(* document at the canonical path.                                         *)
BackupBestEffort ==
  /\ []((storeOp.pc \in {"write", "rename"} /\ disk.store.exists) =>
          /\ storeOp.bak # "none"
          /\ storeOp.bak = "copied" => disk.backup = disk.store)
  /\ [][storeOp.pc = "backup" =>
          /\ storeOp'.pc = "write"
          /\ storeOp'.data = storeOp.data
          /\ ~storeOp'.threw
          /\ disk'.store = disk.store]_vars
  /\ [][(storeOp.pc = "rename" /\ storeOp.bak = "failed" /\ disk'.store # disk.store) =>
          disk'.store = File(storeOp.data)]_vars

BackupFailedSavedWitness ==
  /\ storeOp.pc = "idle"
  /\ ~storeOp.threw
  /\ storeOp.bak = "failed"
  /\ storeOp.caller = "addTenant"
  /\ disk.store = File(storeOp.data)
  /\ disk.backup = NoFile

(* C33: a tenant update, through the route or through the store with a     *)
(* patch that carries instances, keeps the set of tenants, the instance    *)
(* map of every tenant and the whole of every other tenant.                *)
TenantUpdateKeepsInstances ==
  [][resp'.kind \in {"updateTenant", "store.updateTenant"} =>
       /\ DOMAIN fleet' = DOMAIN fleet
       /\ \A t \in DOMAIN fleet :
            /\ fleet'[t].instances = fleet[t].instances
            /\ fleet'[t].id = fleet[t].id
            /\ t # resp'.id => fleet'[t] = fleet[t]]_vars

PatchWithInstancesWitness ==
  /\ resp.kind = "store.updateTenant"
  /\ resp.detail.patch = "instances"
  /\ resp.id \in DOMAIN fleet
  /\ fleet[resp.id].notes = "n2"
  /\ DOMAIN fleet[resp.id].instances # {}

(* C34: the step that completes a tenant delete removes from the registry  *)
(* only instances whose remote project the delete asked to be deleted.     *)
TenantDeleteRequestsAll ==
  [][(resp'.kind = "deleteTenant" /\ resp'.code = 200 /\ resp'.id \in DOMAIN fleet) =>
       DOMAIN fleet[resp'.id].instances \subseteq resp'.detail.requested]_vars

(* C35: when no request is in flight, every entry of the status cache      *)
(* belongs to an instance of the registry.  (An id is absent from the      *)
(* registry only once a delete has removed it: entries are stored for      *)
(* instances the route found.)                                             *)
CacheHoldsOnlyStored ==
  (creates = {} /\ tdels = {} /\ lifes = {} /\ stats = {}) =>
     \A i \in DOMAIN statusCache : i \in AllInstanceIds(fleet)

(* C36: every create request that has started a workflow is answered, with *)
(* 200 or 500, in the end.                                                 *)
CreateCompletes ==
  \A i \in InstanceIdInputs :
    (\E c \in creates : c.iid = i) ~>
      (resp.kind = "createInstance" /\ resp.id = i /\ resp.code \in {200, 500})

(* The cache holds for instance i a degraded snapshot stored less than 30  *)
(* seconds ago.                                                            *)
DegradedYoung(i) ==
  /\ i \in DOMAIN statusCache
  /\ statusCache[i].data.deployment.status = "UNKNOWN"
  /\ now - statusCache[i].fetchedAt < 30000

(* C37: a read whose query failed stores its snapshot, with status         *)
(* "unknown", as the cache entry; while that entry is less than 30 seconds *)
(* old a list read of the instance that arrives starts no query: it is    *)
(* answered at once, from the cache, with "unknown".                       *)
DegradedSnapshotCached ==
  /\ []((IsResp("status", 200) /\ resp.detail.failed # "none") =>
          /\ resp.id \in DOMAIN statusCache
          /\ statusCache[resp.id].data = resp.detail.data
          /\ statusCache[resp.id].fetchedAt = now
          /\ resp.detail.data.status = "unknown")
  /\ [][\A i \in DOMAIN statusCache : DegradedYoung(i) =>
          /\ \A r \in stats' \ stats :
                ~(r.iid = i /\ r.src = "list" /\ r.pc = "deployments")
          /\ (resp'.kind = "status" /\ resp'.code = 200 /\ resp'.id = i
                /\ resp'.detail.src = "list" /\ stats' = stats) =>
               /\ resp'.detail.cached
               /\ resp'.detail.data = statusCache[i].data
               /\ resp'.detail.data.status = "unknown"
               /\ statusCache' = statusCache]_vars

DegradedServedWitness ==
  /\ IsResp("status", 200)
  /\ resp.detail.cached
  /\ resp.detail.src = "list"
  /\ resp.detail.data.deployment.status = "UNKNOWN"
  /\ resp.detail.data.status = "unknown"
  /\ now > statusCache[resp.id].fetchedAt

(* The members of an instance's stored config that a response body's       *)
(* instance carries, at its top level or under config.                     *)
SecretsIn(instance) ==
  (DOMAIN instance \cap {"setupPassword", "gatewayToken"})
    \cup (IF "config" \in DOMAIN instance THEN DOMAIN instance.config ELSE {})

CarriesInstance ==
  \/ IsResp("createInstance", 200)
  \/ IsResp("status", 200)

(* C38: the instance in a create response, in a list response and in a     *)
(* detail response of either route carries no gateway token: of the        *)
(* instance's stored config it carries at most the setup password.         *)
(* Responses of the other routes carry no instance.                        *)
NoGatewayTokenInResponses ==
  /\ CarriesInstance => SecretsIn(resp.detail.instance) \subseteq {"setupPassword"}
  /\ ~CarriesInstance => resp.detail = <<>> \/ "instance" \notin DOMAIN resp.detail

DetailHidesTokenWitness ==
  /\ IsResp("status", 200)
  /\ resp.detail.src = "detail"
  /\ \E t \in DOMAIN fleet :
        /\ resp.id \in DOMAIN fleet[t].instances
        /\ "gatewayToken" \in DOMAIN fleet[t].instances[resp.id].config
  /\ resp.detail.instance.config = [setupPassword |-> "pw"]

====
